---------------------------- MODULE Spec2Model ----------------------------
(***************************************************************************)
(* Model of papilo::ProblemUpdate<REAL> (src/papilo/core/ProblemUpdate.hpp) *)
(*                                                                         *)
(* REAL values (bounds, sides, activities, objective offset) are held on a *)
(* fixed-point grid: the integer k stands for the real k / Unit.  Matrix   *)
(* and objective coefficients, scales and factors are plain integers, so a *)
(* product coefficient * value is again a grid value.  A quotient is only  *)
(* taken where it is exact on the grid (the inputs are chosen that way).   *)
(***************************************************************************)
EXTENDS Integers, Sequences, FiniteSets, TLC

\* ------------------------------------------------------------------------
\* Numerics (Num<REAL>)
\* ------------------------------------------------------------------------

\* grid points per 1.0
Unit == 4

\* num.getFeasTol(), in grid points (a quarter)
FeasTol == 1

\* num.isHugeVal threshold, in grid points (16.0)
HugeVal == 64

Abs(a) == IF a < 0 THEN -a ELSE a

Max(a, b) == IF a >= b THEN a ELSE b

\* floor and ceiling of a grid value, as grid values
Floor(a) == (a \div Unit) * Unit

Ceil(a) == -Floor(-a)

\* nearest integral grid value (ties upwards)
Round(a) == Floor(a + (Unit \div 2))

isFeasLT(a, b) == a - b < -FeasTol

isFeasGT(a, b) == a - b > FeasTol

isFeasGE(a, b) == a - b >= -FeasTol

isFeasLE(a, b) == a - b <= FeasTol

isFeasIntegral(a) == Abs(a - Round(a)) <= FeasTol

feasCeil(a) == Ceil(a - FeasTol)

feasFloor(a) == Floor(a + FeasTol)

isHugeVal(a) == Abs(a) >= HugeVal

\* exact quotient on the grid (callers guard with Divides)
Divides(d, a) == d # 0 /\ a % Abs(d) = 0

Quot(a, d) == IF d > 0 THEN a \div d ELSE (-a) \div (-d)

\* ------------------------------------------------------------------------
\* Vectors: C++ Vec<T> indexed from 0 is a function on 0..n-1; index lists
\* that are only appended to and iterated are sequences.
\* ------------------------------------------------------------------------

Vec(q) == [i \in 0..(Len(q) - 1) |-> q[i + 1]]

RECURSIVE SeqFilter(_, _)
SeqFilter(q, keep) ==
    IF q = <<>> THEN <<>>
    ELSE IF Head(q) \in keep THEN <<Head(q)>> \o SeqFilter(Tail(q), keep)
    ELSE SeqFilter(Tail(q), keep)

Range(q) == {q[i] : i \in DOMAIN q}

\* ascending enumeration of a finite set of integers
RECURSIVE SortedBetween(_, _, _)
SortedBetween(S, lo, hi) ==
    IF lo > hi THEN <<>>
    ELSE IF lo = hi THEN (IF lo \in S THEN <<lo>> ELSE <<>>)
    ELSE LET mid == (lo + hi) \div 2
         IN SortedBetween(S, lo, mid) \o SortedBetween(S, mid + 1, hi)

SortedSeq(S) ==
    IF S = {} THEN <<>>
    ELSE SortedBetween(S, CHOOSE x \in S : \A y \in S : x <= y,
                          CHOOSE x \in S : \A y \in S : x >= y)

\* ------------------------------------------------------------------------
\* Flags (papilo/misc/Flags.hpp): a flag word is the set of its set bits
\* ------------------------------------------------------------------------

\* ColFlag::kLbUseless = kLbInf | kLbHuge, and so on
kLbUseless == {"LbInf", "LbHuge"}

kUbUseless == {"UbInf", "UbHuge"}

kUnbounded == {"LbInf", "UbInf"}

kInactive == {"Fixed", "Substituted"}

\* Flags::test( f... ): true if any of the given bits is set
Test(flags, bits) == flags \cap bits # {}


\* ------------------------------------------------------------------------
\* The threaded state: s.problem (Problem<REAL>), s.update (the members of
\* ProblemUpdate itself), s.stats (Statistics), s.postsolve (the trail) and
\* s.valid (no assert of the source has failed on the way).
\* ------------------------------------------------------------------------

Ret(s, status) == [s |-> s, status |-> status]

Invalid(s) == [s EXCEPT !.valid = FALSE]

\* the statuses that end the presolve
Stops(status) == status \in {"kInfeasible", "kUnbndOrInfeas"}

\* s.trace takes the status a step of trivialPresolve returned
noteStep(r) == [r EXCEPT !.s.trace = Append(@, r.status)]

\* constraintMatrix.getRowCoefficients( row ).getIndices(): ascending columns
RowCols(p, row) == SortedSeq({c \in 0..(p.ncols - 1) : p.coef[row][c] # 0})

\* constraintMatrix.getColumnCoefficients( col ).getIndices(): ascending rows
ColRows(p, col) == SortedSeq({r \in 0..(p.nrows - 1) : p.coef[r][col] # 0})

RowVals(p, row) == [k \in DOMAIN RowCols(p, row) |-> p.coef[row][RowCols(p, row)[k]]]

ColVals(p, col) == [k \in DOMAIN ColRows(p, col) |-> p.coef[ColRows(p, col)[k]][col]]

\* ------------------------------------------------------------------------
\* Row and column states of the round
\* ------------------------------------------------------------------------

EquationFlagOk(p, row) ==
    \/ "Redundant" \in p.rflags[row]
    \/ /\ "Equation" \notin p.rflags[row]
       /\ (Test(p.rflags[row], {"LhsInf", "RhsInf"}) \/ p.lhs[row] # p.rhs[row])
    \/ /\ "Equation" \in p.rflags[row]
       /\ ~Test(p.rflags[row], {"LhsInf", "RhsInf"})
       /\ p.lhs[row] = p.rhs[row]

\* setColState pushing the column onto dirty_col_states on every call
setColStateAlwaysPushed(s, col, flags) ==
    [s EXCEPT !.update.dirty_col_states = Append(@, col),
              !.update.col_state[col] = @ \cup flags,
              !.valid = @ /\ col >= 0 /\ col < s.problem.ncols]

setColState(s, col, flags) ==
    LET pushed == IF s.update.col_state[col] = {}
                  THEN Append(s.update.dirty_col_states, col)
                  ELSE s.update.dirty_col_states
    IN [s EXCEPT !.update.dirty_col_states = pushed,
                 !.update.col_state[col] = @ \cup flags,
                 !.valid = @ /\ col >= 0 /\ col < s.problem.ncols]

setRowState(s, row, flags) ==
    LET pushed == IF s.update.row_state[row] = {}
                  THEN Append(s.update.dirty_row_states, row)
                  ELSE s.update.dirty_row_states
    IN [s EXCEPT !.update.dirty_row_states = pushed,
                 !.update.row_state[row] = @ \cup flags,
                 !.valid = @ /\ row >= 0 /\ row < s.problem.nrows
                             /\ EquationFlagOk(s.problem, row)]

RECURSIVE setColStates(_, _, _)
setColStates(s, cols, flags) ==
    IF cols = <<>> THEN s
    ELSE setColStates(setColState(s, Head(cols), flags), Tail(cols), flags)

RECURSIVE setRowStates(_, _, _)
setRowStates(s, rows, flags) ==
    IF rows = <<>> THEN s
    ELSE setRowStates(setRowState(s, Head(rows), flags), Tail(rows), flags)

\* ------------------------------------------------------------------------
\* Activities
\* ------------------------------------------------------------------------

\* update_activity without the test for a multiply-infinite minimum
update_activityAnyMin(s, actChange, rowid) ==
    LET activity == s.problem.activities[rowid]
    IN IF activity.lastchange = s.stats.nrounds THEN s
       ELSE IF actChange = "kMax" /\ activity.ninfmax > 1 THEN s
       ELSE IF "Redundant" \in s.problem.rflags[rowid] THEN s
       ELSE [s EXCEPT !.problem.activities[rowid].lastchange = s.stats.nrounds,
                      !.update.changed_activities = Append(@, rowid)]

update_activity(s, actChange, rowid) ==
    LET activity == s.problem.activities[rowid]
    IN IF activity.lastchange = s.stats.nrounds THEN s
       ELSE IF actChange = "kMin" /\ activity.ninfmin > 1 THEN s
       ELSE IF actChange = "kMax" /\ activity.ninfmax > 1 THEN s
       ELSE IF "Redundant" \in s.problem.rflags[rowid] THEN s
       ELSE [s EXCEPT !.problem.activities[rowid].lastchange = s.stats.nrounds,
                      !.update.changed_activities = Append(@, rowid)]

\* which side of the activity a bound change of a column with coefficient
\* colval touches
ActivitySide(colval, type) ==
    IF type = "kLower"
    THEN (IF colval < 0 THEN "kMax" ELSE "kMin")
    ELSE (IF colval < 0 THEN "kMin" ELSE "kMax")

update_activity_after_boundchange(colval, type, oldbound, newbound, oldbound_inf, activity) ==
    IF ActivitySide(colval, type) = "kMax"
    THEN IF oldbound_inf
         THEN [activity EXCEPT !.ninfmax = @ - 1, !.max = @ + newbound * colval]
         ELSE [activity EXCEPT !.max = @ + (newbound - oldbound) * colval]
    ELSE IF oldbound_inf
         THEN [activity EXCEPT !.ninfmin = @ - 1, !.min = @ + newbound * colval]
         ELSE [activity EXCEPT !.min = @ + (newbound - oldbound) * colval]

RECURSIVE update_activities_after_boundchange(_, _, _, _, _, _, _, _)
update_activities_after_boundchange(s, colvals, colrows, type, oldbound, newbound, oldbound_inf, notify) ==
    IF colrows = <<>> THEN s
    ELSE LET row == Head(colrows)
             val == Head(colvals)
             callback(s1) == IF notify
                             THEN update_activity(s1, ActivitySide(val, type), row)
                             ELSE s1
         IN update_activities_after_boundchange(
                callback([s EXCEPT !.problem.activities[row] =
                             update_activity_after_boundchange(
                                 val, type, oldbound, newbound, oldbound_inf, @)]),
                Tail(colvals), Tail(colrows), type, oldbound, newbound,
                oldbound_inf, notify)

\* ------------------------------------------------------------------------
\* Record-only primitives
\* ------------------------------------------------------------------------

\* markRowRedundant without the test of the Redundant flag
markRowRedundantUnguarded(s, row) ==
    [s EXCEPT !.update.redundant_rows = Append(@, row),
              !.stats.ndeletedrows = @ + 1,
              !.problem.rflags[row] = @ \cup {"Redundant"}]

markRowRedundant(s, row) ==
    IF "Redundant" \notin s.problem.rflags[row]
    THEN [s EXCEPT !.update.redundant_rows = Append(@, row),
                   !.stats.ndeletedrows = @ + 1,
                   !.problem.rflags[row] = @ \cup {"Redundant"}]
    ELSE s

\* the column counts of Problem: getNumIntegralCols / getNumContinuousCols
DecrColCount(s, col) ==
    IF "Integral" \in s.problem.cflags[col]
    THEN [s EXCEPT !.problem.nintcols = @ - 1]
    ELSE [s EXCEPT !.problem.ncontcols = @ - 1]

\* markColFixed without the push onto deleted_cols
markColFixedUnqueued(s, col) ==
    DecrColCount(
        [s EXCEPT !.problem.cflags[col] = @ \cup {"Fixed"},
                  !.stats.ndeletedcols = @ + 1,
                  !.valid = @ /\ ~Test(s.problem.cflags[col], kInactive)],
        col)

markColFixed(s, col) ==
    DecrColCount(
        [s EXCEPT !.problem.cflags[col] = @ \cup {"Fixed"},
                  !.update.deleted_cols = Append(@, col),
                  !.stats.ndeletedcols = @ + 1,
                  !.valid = @ /\ ~Test(s.problem.cflags[col], kInactive)],
        col)

\* ------------------------------------------------------------------------
\* Bound and fix mutators
\* ------------------------------------------------------------------------

\* fixCol taking the lower bound as changed on every call
fixColAlwaysChanged(s, col, val) ==
    LET p == s.problem
        cf == p.cflags[col]
        lbchanged == TRUE
        ubchanged == "UbInf" \in cf \/ val # p.ubs[col]
        s0 == [s EXCEPT !.stats.nboundchgs =
                   @ + (IF lbchanged THEN 1 ELSE 0) + (IF ubchanged THEN 1 ELSE 0)]
        lower(t) == IF lbchanged
                    THEN [update_activities_after_boundchange(
                              t, ColVals(p, col), ColRows(p, col), "kLower",
                              p.lbs[col], val, Test(cf, kLbUseless), TRUE)
                          EXCEPT !.problem.lbs[col] = val,
                                 !.problem.cflags[col] = @ \ kLbUseless]
                    ELSE t
        upper(t) == IF ubchanged
                    THEN [update_activities_after_boundchange(
                              t, ColVals(p, col), ColRows(p, col), "kUpper",
                              p.ubs[col], val, Test(cf, kUbUseless), TRUE)
                          EXCEPT !.problem.ubs[col] = val,
                                 !.problem.cflags[col] = @ \ kUbUseless]
                    ELSE t
    IN IF "Substituted" \in cf THEN Ret(s, "kUnchanged")
       ELSE IF lbchanged \/ ubchanged
       THEN IF \/ ("LbInf" \notin cf /\ isFeasLT(val, p.lbs[col]))
               \/ ("UbInf" \notin cf /\ isFeasGT(val, p.ubs[col]))
               \/ ("Integral" \in cf /\ ~isFeasIntegral(val))
            THEN Ret(s0, "kInfeasible")
            ELSE IF "Fixed" \in cf THEN Ret(s0, "kUnchanged")
            ELSE Ret(setColState(markColFixed(upper(lower(s0)), col), col,
                                 {"BoundsModified"}),
                     "kReduced")
       ELSE Ret([s EXCEPT !.valid = @ /\ "Fixed" \in cf], "kUnchanged")

fixCol(s, col, val) ==
    LET p == s.problem
        cf == p.cflags[col]
        lbchanged == "LbInf" \in cf \/ val # p.lbs[col]
        ubchanged == "UbInf" \in cf \/ val # p.ubs[col]
        s0 == [s EXCEPT !.stats.nboundchgs =
                   @ + (IF lbchanged THEN 1 ELSE 0) + (IF ubchanged THEN 1 ELSE 0)]
        lower(t) == IF lbchanged
                    THEN [update_activities_after_boundchange(
                              t, ColVals(p, col), ColRows(p, col), "kLower",
                              p.lbs[col], val, Test(cf, kLbUseless), TRUE)
                          EXCEPT !.problem.lbs[col] = val,
                                 !.problem.cflags[col] = @ \ kLbUseless]
                    ELSE t
        upper(t) == IF ubchanged
                    THEN [update_activities_after_boundchange(
                              t, ColVals(p, col), ColRows(p, col), "kUpper",
                              p.ubs[col], val, Test(cf, kUbUseless), TRUE)
                          EXCEPT !.problem.ubs[col] = val,
                                 !.problem.cflags[col] = @ \ kUbUseless]
                    ELSE t
    IN IF "Substituted" \in cf THEN Ret(s, "kUnchanged")
       ELSE IF lbchanged \/ ubchanged
       THEN IF \/ ("LbInf" \notin cf /\ isFeasLT(val, p.lbs[col]))
               \/ ("UbInf" \notin cf /\ isFeasGT(val, p.ubs[col]))
               \/ ("Integral" \in cf /\ ~isFeasIntegral(val))
            THEN Ret(s0, "kInfeasible")
            ELSE IF "Fixed" \in cf THEN Ret(s0, "kUnchanged")
            ELSE Ret(setColState(markColFixed(upper(lower(s0)), col), col,
                                 {"BoundsModified"}),
                     "kReduced")
       ELSE Ret([s EXCEPT !.valid = @ /\ "Fixed" \in cf], "kUnchanged")

fixColInfinity(s, col, val) ==
    LET cf == s.problem.cflags[col]
    IN IF "Substituted" \in cf \/ "Fixed" \in cf \/ val = 0
       THEN Ret(s, "kUnchanged")
       ELSE Ret(setColState(markColFixed(s, col), col, {"BoundsModified"}),
                "kReduced")

\* the tail shared by changeLB and changeUB once the bound is stored: the
\* column becomes fixed when the two bounds coincide
FixIfBoundsEqual(s, col, otherInf) ==
    IF otherInf \notin s.problem.cflags[col]
       /\ s.problem.ubs[col] = s.problem.lbs[col]
    THEN DecrColCount(
             [s EXCEPT !.problem.cflags[col] = @ \cup {"Fixed"},
                       !.update.deleted_cols = Append(@, col),
                       !.stats.ndeletedcols = @ + 1],
             col)
    ELSE s

\* changeLB without the rounding of the bound of an integer column
changeLBUnrounded(s, col, val) ==
    LET p == s.problem
        cf == p.cflags[col]
        rounded == val
        clamp == "UbInf" \notin cf /\ rounded > p.ubs[col]
        newbound == IF clamp THEN p.ubs[col] ELSE rounded
        s0 == [s EXCEPT !.stats.nboundchgs = @ + 1]
        s1 == IF ~isHugeVal(newbound)
              THEN [update_activities_after_boundchange(
                        s0, ColVals(p, col), ColRows(p, col), "kLower",
                        p.lbs[col], newbound, Test(cf, kLbUseless), TRUE)
                    EXCEPT !.problem.cflags[col] = @ \ kLbUseless]
              ELSE [s0 EXCEPT !.problem.cflags[col] = @ \ {"LbInf"}]
        s2 == [s1 EXCEPT !.problem.lbs[col] = newbound]
    IN IF "Substituted" \in cf THEN Ret(s, "kUnchanged")
       ELSE IF "LbInf" \in cf \/ rounded > p.lbs[col]
       THEN IF clamp /\ isFeasGT(rounded, p.ubs[col])
            THEN Ret(s0, "kInfeasible")
            ELSE IF clamp /\ "LbInf" \notin cf /\ p.lbs[col] = p.ubs[col]
            THEN Ret(s0, "kUnchanged")
            ELSE Ret(setColState(FixIfBoundsEqual(s2, col, "UbInf"), col,
                                 {"BoundsModified"}),
                     "kReduced")
       ELSE Ret(s, "kUnchanged")

changeLB(s, col, val) ==
    LET p == s.problem
        cf == p.cflags[col]
        rounded == IF Test(cf, {"Integral", "ImplInt"}) THEN feasCeil(val) ELSE val
        clamp == "UbInf" \notin cf /\ rounded > p.ubs[col]
        newbound == IF clamp THEN p.ubs[col] ELSE rounded
        s0 == [s EXCEPT !.stats.nboundchgs = @ + 1]
        s1 == IF ~isHugeVal(newbound)
              THEN [update_activities_after_boundchange(
                        s0, ColVals(p, col), ColRows(p, col), "kLower",
                        p.lbs[col], newbound, Test(cf, kLbUseless), TRUE)
                    EXCEPT !.problem.cflags[col] = @ \ kLbUseless]
              ELSE [s0 EXCEPT !.problem.cflags[col] = @ \ {"LbInf"}]
        s2 == [s1 EXCEPT !.problem.lbs[col] = newbound]
    IN IF "Substituted" \in cf THEN Ret(s, "kUnchanged")
       ELSE IF "LbInf" \in cf \/ rounded > p.lbs[col]
       THEN IF clamp /\ isFeasGT(rounded, p.ubs[col])
            THEN Ret(s0, "kInfeasible")
            ELSE IF clamp /\ "LbInf" \notin cf /\ p.lbs[col] = p.ubs[col]
            THEN Ret(s0, "kUnchanged")
            ELSE Ret(setColState(FixIfBoundsEqual(s2, col, "UbInf"), col,
                                 {"BoundsModified"}),
                     "kReduced")
       ELSE Ret(s, "kUnchanged")

changeUB(s, col, val) ==
    LET p == s.problem
        cf == p.cflags[col]
        rounded == IF Test(cf, {"Integral", "ImplInt"}) THEN feasFloor(val) ELSE val
        clamp == "LbInf" \notin cf /\ rounded < p.lbs[col]
        newbound == IF clamp THEN p.lbs[col] ELSE rounded
        s0 == [s EXCEPT !.stats.nboundchgs = @ + 1]
        s1 == IF ~isHugeVal(newbound)
              THEN [update_activities_after_boundchange(
                        s0, ColVals(p, col), ColRows(p, col), "kUpper",
                        p.ubs[col], newbound, Test(cf, kUbUseless), TRUE)
                    EXCEPT !.problem.cflags[col] = @ \ kUbUseless]
              ELSE [s0 EXCEPT !.problem.cflags[col] = @ \ {"UbInf"}]
        s2 == [s1 EXCEPT !.problem.ubs[col] = newbound]
    IN IF "Substituted" \in cf THEN Ret(s, "kUnchanged")
       ELSE IF "UbInf" \in cf \/ rounded < p.ubs[col]
       THEN IF clamp /\ isFeasLT(rounded, p.lbs[col])
            THEN Ret(s0, "kInfeasible")
            ELSE IF clamp /\ "UbInf" \notin cf /\ p.lbs[col] = p.ubs[col]
            THEN Ret(s0, "kUnchanged")
            ELSE Ret(setColState(FixIfBoundsEqual(s2, col, "LbInf"), col,
                                 {"BoundsModified"}),
                     "kReduced")
       ELSE Ret(s, "kUnchanged")

\* ------------------------------------------------------------------------
\* Rows: sides, activities from scratch, status
\* ------------------------------------------------------------------------

\* ConstraintMatrix::modifyLeftHandSide<infval>( row, val ): stores the side
\* and keeps the equation flag in step with it
modifyLeftHandSide(p, row, infval, val) ==
    LET fl == IF infval
              THEN (p.rflags[row] \cup {"LhsInf"}) \ {"Equation"}
              ELSE IF "RhsInf" \notin p.rflags[row] /\ val = p.rhs[row]
              THEN (p.rflags[row] \ {"LhsInf"}) \cup {"Equation"}
              ELSE p.rflags[row] \ {"LhsInf", "Equation"}
    IN [p EXCEPT !.rflags[row] = fl,
                 !.lhs[row] = IF infval THEN @ ELSE val]

modifyRightHandSide(p, row, infval, val) ==
    LET fl == IF infval
              THEN (p.rflags[row] \cup {"RhsInf"}) \ {"Equation"}
              ELSE IF "LhsInf" \notin p.rflags[row] /\ val = p.lhs[row]
              THEN (p.rflags[row] \ {"RhsInf"}) \cup {"Equation"}
              ELSE p.rflags[row] \ {"RhsInf", "Equation"}
    IN [p EXCEPT !.rflags[row] = fl,
                 !.rhs[row] = IF infval THEN @ ELSE val]

\* the contribution of one entry (coefficient a of a column with the given
\* bounds and flags) to a row activity
EntryActivity(a, lb, ub, cf) ==
    LET lbless == Test(cf, kLbUseless)
        ubless == Test(cf, kUbUseless)
        minless == IF a > 0 THEN lbless ELSE ubless
        maxless == IF a > 0 THEN ubless ELSE lbless
        minval == IF a > 0 THEN a * lb ELSE a * ub
        maxval == IF a > 0 THEN a * ub ELSE a * lb
    IN IF a = 0
       THEN [min |-> 0, max |-> 0, ninfmin |-> 0, ninfmax |-> 0]
       ELSE [min |-> IF minless THEN 0 ELSE minval,
             max |-> IF maxless THEN 0 ELSE maxval,
             ninfmin |-> IF minless THEN 1 ELSE 0,
             ninfmax |-> IF maxless THEN 1 ELSE 0]

RECURSIVE SumActivity(_, _, _)
SumActivity(p, row, cols) ==
    IF cols = <<>>
    THEN [min |-> 0, max |-> 0, ninfmin |-> 0, ninfmax |-> 0]
    ELSE LET c == Head(cols)
             e == EntryActivity(p.coef[row][c], p.lbs[c], p.ubs[c], p.cflags[c])
             r == SumActivity(p, row, Tail(cols))
         IN [min |-> e.min + r.min, max |-> e.max + r.max,
             ninfmin |-> e.ninfmin + r.ninfmin,
             ninfmax |-> e.ninfmax + r.ninfmax]

\* compute_row_activity: the activity of a row from the current bounds
compute_row_activity(p, row) == SumActivity(p, row, RowCols(p, row))

\* Problem::recomputeAllActivities
recomputeAllActivities(p) ==
    [p EXCEPT !.activities =
        [r \in 0..(p.nrows - 1) |->
            LET a == compute_row_activity(p, r)
            IN [min |-> a.min, max |-> a.max, ninfmin |-> a.ninfmin,
                ninfmax |-> a.ninfmax, lastchange |-> -1]]]

\* RowActivity::checkStatus
checkStatus(activity, rflags, lhs, rhs) ==
    LET haslhs == "LhsInf" \notin rflags
        hasrhs == "RhsInf" \notin rflags
        lhsred == ~haslhs \/ (activity.ninfmin = 0 /\ isFeasGE(activity.min, lhs))
        rhsred == ~hasrhs \/ (activity.ninfmax = 0 /\ isFeasLE(activity.max, rhs))
    IN IF haslhs /\ activity.ninfmax = 0 /\ isFeasLT(activity.max, lhs)
       THEN "kInfeasible"
       ELSE IF hasrhs /\ activity.ninfmin = 0 /\ isFeasGT(activity.min, rhs)
       THEN "kInfeasible"
       ELSE IF lhsred /\ rhsred THEN "kRedundant"
       ELSE IF lhsred /\ haslhs THEN "kRedundantLhs"
       ELSE IF rhsred /\ hasrhs THEN "kRedundantRhs"
       ELSE "kUnknown"

\* update_activities_after_coeffchange: the entry's old contribution leaves
\* the activity, its new one enters; each touched side is reported
update_activities_after_coeffchange(s, row, col, oldval, newval) ==
    LET p == s.problem
        old == EntryActivity(oldval, p.lbs[col], p.ubs[col], p.cflags[col])
        new == EntryActivity(newval, p.lbs[col], p.ubs[col], p.cflags[col])
        act == p.activities[row]
        s1 == [s EXCEPT !.problem.activities[row] =
                  [act EXCEPT !.min = @ - old.min + new.min,
                              !.max = @ - old.max + new.max,
                              !.ninfmin = @ - old.ninfmin + new.ninfmin,
                              !.ninfmax = @ - old.ninfmax + new.ninfmax]]
        minmoved == old.min # new.min \/ old.ninfmin # new.ninfmin
        maxmoved == old.max # new.max \/ old.ninfmax # new.ninfmax
        s2 == IF minmoved THEN update_activity(s1, "kMin", row) ELSE s1
    IN IF maxmoved THEN update_activity(s2, "kMax", row) ELSE s2

\* ------------------------------------------------------------------------
\* Matrix storage (ConstraintMatrix): coefficient changes and deletions
\* ------------------------------------------------------------------------

NnzRow(coef, ncols, row) == Cardinality({c \in 0..(ncols - 1) : coef[row][c] # 0})

NnzCol(coef, nrows, col) == Cardinality({r \in 0..(nrows - 1) : coef[r][col] # 0})

\* installs a new coefficient table: the sizes follow the table, a deleted
\* row or column keeps size -1, and every row or column whose size changed
\* is noted: size 1 in the singleton lists, an emptied column in emptyColumns
StoreMatrix(s, newcoef, delrows, delcols) ==
    LET p == s.problem
        rs == [r \in 0..(p.nrows - 1) |->
                 IF r \in delrows \/ p.rowsize[r] = -1 THEN -1
                 ELSE NnzRow(newcoef, p.ncols, r)]
        cs == [c \in 0..(p.ncols - 1) |->
                 IF c \in delcols \/ p.colsize[c] = -1 THEN -1
                 ELSE NnzCol(newcoef, p.nrows, c)]
        newsingrows == {r \in 0..(p.nrows - 1) : rs[r] = 1 /\ p.rowsize[r] # 1}
        newsingcols == {c \in 0..(p.ncols - 1) : cs[c] = 1 /\ p.colsize[c] # 1}
        newempty == {c \in 0..(p.ncols - 1) : cs[c] = 0 /\ p.colsize[c] # 0}
    IN [s EXCEPT !.problem.coef = newcoef,
                 !.problem.rowsize = rs,
                 !.problem.colsize = cs,
                 !.update.singletonRows = @ \o SortedSeq(newsingrows),
                 !.update.singletonColumns = @ \o SortedSeq(newsingcols),
                 !.update.emptyColumns = @ \o SortedSeq(newempty)]

\* the coeffChanged callback of flushChangedCoeffs, entry by entry
RECURSIVE ApplyBuffer(_, _, _)
ApplyBuffer(s, coef, buffer) ==
    IF buffer = <<>> THEN [s |-> s, coef |-> coef]
    ELSE LET e == Head(buffer)
             oldval == coef[e.row][e.col]
             s1 == IF oldval # e.val
                   THEN [update_activities_after_coeffchange(
                             s, e.row, e.col, oldval, e.val)
                         EXCEPT !.stats.ncoefchgs = @ + 1]
                   ELSE s
         IN ApplyBuffer(s1, [coef EXCEPT ![e.row][e.col] = e.val], Tail(buffer))

flushChangedCoeffs(s) ==
    LET store(r) ==
            [StoreMatrix(r.s, r.coef, {}, {}) EXCEPT !.update.matrix_buffer = <<>>]
    IN IF s.update.matrix_buffer # <<>>
       THEN store(ApplyBuffer(s, s.problem.coef, s.update.matrix_buffer))
       ELSE s

\* ConstraintMatrix::deleteRowsAndCols: the listed rows and columns leave the
\* storage and both lists are emptied
deleteRowsAndCols(s) ==
    LET p == s.problem
        delrows == {r \in Range(s.update.redundant_rows) : p.rowsize[r] # -1}
        delcols == {c \in Range(s.update.deleted_cols) : p.colsize[c] # -1}
        newcoef == [r \in 0..(p.nrows - 1) |-> [c \in 0..(p.ncols - 1) |->
                       IF r \in delrows \/ c \in delcols THEN 0 ELSE p.coef[r][c]]]
        s1 == StoreMatrix(s, newcoef, delrows, delcols)
    IN [s1 EXCEPT !.update.redundant_rows = <<>>,
                  !.update.deleted_cols = <<>>,
                  !.problem.activities =
                      [r \in 0..(p.nrows - 1) |->
                          IF r \in delrows
                          THEN [@[r] EXCEPT !.min = 0, !.max = 0,
                                            !.ninfmin = 0, !.ninfmax = 0]
                          ELSE @[r]]]

\* ------------------------------------------------------------------------
\* Singleton rows, changed activities, fixed and empty columns
\* ------------------------------------------------------------------------

\* removeSingletonRow that fixes the column of an equation to the right hand
\* side without dividing by the coefficient
removeSingletonRowUndivided(s, row) ==
    LET p == s.problem
        rf == p.rflags[row]
        col == RowCols(p, row)[1]
        val == p.coef[row][col]
        lhs == p.lhs[row]
        rhs == p.rhs[row]
        needl == "LhsInf" \notin rf
        needr == "RhsInf" \notin rf
        exact == IF "Equation" \in rf THEN Divides(val, rhs)
                 ELSE (needl => Divides(val, lhs)) /\ (needr => Divides(val, rhs))
        s0 == [s EXCEPT !.valid = @ /\ exact /\ Len(RowCols(p, row)) = 1]
        \* the left hand side is applied first, the right hand side second
        left(t) == IF ~needl THEN Ret(t, "kUnchanged")
                   ELSE IF val < 0 THEN changeUB(t, col, Quot(lhs, val))
                   ELSE changeLB(t, col, Quot(lhs, val))
        right(first) == IF ~needr \/ first.status = "kInfeasible" THEN first
                        ELSE IF val < 0 THEN changeLB(first.s, col, Quot(rhs, val))
                        ELSE changeUB(first.s, col, Quot(rhs, val))
        finish(r) == Ret(markRowRedundant(r.s, row), r.status)
    IN IF p.rowsize[row] # 1 \/ "Redundant" \in rf
       THEN Ret(s, "kUnchanged")
       ELSE IF "Equation" \in rf THEN finish(fixCol(s0, col, rhs))
       ELSE finish(right(left(s0)))

\* removeSingletonRow that makes the second bound call whatever the first
\* one returned
removeSingletonRowBothCalls(s, row) ==
    LET p == s.problem
        rf == p.rflags[row]
        col == RowCols(p, row)[1]
        val == p.coef[row][col]
        lhs == p.lhs[row]
        rhs == p.rhs[row]
        needl == "LhsInf" \notin rf
        needr == "RhsInf" \notin rf
        exact == IF "Equation" \in rf THEN Divides(val, rhs)
                 ELSE (needl => Divides(val, lhs)) /\ (needr => Divides(val, rhs))
        s0 == [s EXCEPT !.valid = @ /\ exact /\ Len(RowCols(p, row)) = 1]
        left(t) == IF ~needl THEN Ret(t, "kUnchanged")
                   ELSE IF val < 0 THEN changeUB(t, col, Quot(lhs, val))
                   ELSE changeLB(t, col, Quot(lhs, val))
        right(first) == IF ~needr THEN first
                        ELSE IF val < 0 THEN changeLB(first.s, col, Quot(rhs, val))
                        ELSE changeUB(first.s, col, Quot(rhs, val))
        finish(r) == Ret(markRowRedundant(r.s, row), r.status)
    IN IF p.rowsize[row] # 1 \/ "Redundant" \in rf
       THEN Ret(s, "kUnchanged")
       ELSE IF "Equation" \in rf THEN finish(fixCol(s0, col, Quot(rhs, val)))
       ELSE finish(right(left(s0)))

removeSingletonRow(s, row) ==
    LET p == s.problem
        rf == p.rflags[row]
        col == RowCols(p, row)[1]
        val == p.coef[row][col]
        lhs == p.lhs[row]
        rhs == p.rhs[row]
        needl == "LhsInf" \notin rf
        needr == "RhsInf" \notin rf
        exact == IF "Equation" \in rf THEN Divides(val, rhs)
                 ELSE (needl => Divides(val, lhs)) /\ (needr => Divides(val, rhs))
        s0 == [s EXCEPT !.valid = @ /\ exact /\ Len(RowCols(p, row)) = 1]
        \* the left hand side is applied first, the right hand side second
        left(t) == IF ~needl THEN Ret(t, "kUnchanged")
                   ELSE IF val < 0 THEN changeUB(t, col, Quot(lhs, val))
                   ELSE changeLB(t, col, Quot(lhs, val))
        right(first) == IF ~needr \/ first.status = "kInfeasible" THEN first
                        ELSE IF val < 0 THEN changeLB(first.s, col, Quot(rhs, val))
                        ELSE changeUB(first.s, col, Quot(rhs, val))
        finish(r) == Ret(markRowRedundant(r.s, row), r.status)
    IN IF p.rowsize[row] # 1 \/ "Redundant" \in rf
       THEN Ret(s, "kUnchanged")
       ELSE IF "Equation" \in rf THEN finish(fixCol(s0, col, Quot(rhs, val)))
       ELSE finish(right(left(s0)))

\* the loop of checkChangedActivities over changed_activities
RECURSIVE checkChangedActivitiesFrom(_, _, _)
checkChangedActivitiesFrom(s, rows, status) ==
    IF rows = <<>> THEN Ret(s, status)
    ELSE LET r == Head(rows)
             p == s.problem
             st == checkStatus(p.activities[r], p.rflags[r], p.lhs[r], p.rhs[r])
         IN IF "Redundant" \in p.rflags[r]
            THEN checkChangedActivitiesFrom(s, Tail(rows), status)
            ELSE IF st = "kRedundant"
            THEN checkChangedActivitiesFrom(markRowRedundant(s, r), Tail(rows),
                                            "kReduced")
            ELSE IF st = "kRedundantLhs"
            THEN checkChangedActivitiesFrom(
                     [s EXCEPT !.problem = modifyLeftHandSide(p, r, TRUE, 0)],
                     Tail(rows), "kReduced")
            ELSE IF st = "kRedundantRhs"
            THEN checkChangedActivitiesFrom(
                     [s EXCEPT !.problem = modifyRightHandSide(p, r, TRUE, 0)],
                     Tail(rows), "kReduced")
            ELSE IF st = "kInfeasible" THEN Ret(s, "kInfeasible")
            ELSE checkChangedActivitiesFrom(s, Tail(rows), status)

checkChangedActivities(s) ==
    checkChangedActivitiesFrom(s, s.update.changed_activities, "kUnchanged")

\* the inner loop of removeFixedCols: the constant of a column fixed at a
\* nonzero value leaves the sides and the activities of its rows
RECURSIVE removeFixedColFromRows(_, _, _)
removeFixedColFromRows(p, col, rows) ==
    IF rows = <<>> THEN p
    ELSE LET row == Head(rows)
             rf == p.rflags[row]
             constant == p.lbs[col] * p.coef[row][col]
             p1 == [p EXCEPT !.activities[row].min = @ - constant,
                             !.activities[row].max = @ - constant,
                             !.lhs[row] = IF "LhsInf" \notin rf THEN @ - constant ELSE @,
                             !.rhs[row] = IF "RhsInf" \notin rf THEN @ - constant ELSE @]
             p2 == IF ~Test(rf, {"LhsInf", "RhsInf", "Equation"})
                      /\ p1.lhs[row] = p1.rhs[row]
                   THEN [p1 EXCEPT !.rflags[row] = @ \cup {"Equation"}]
                   ELSE p1
         IN IF "Redundant" \in rf
            THEN removeFixedColFromRows(p, col, Tail(rows))
            ELSE removeFixedColFromRows(p2, col, Tail(rows))

RECURSIVE removeFixedColsFrom(_, _)
removeFixedColsFrom(s, cols) ==
    IF cols = <<>> THEN s
    ELSE LET col == Head(cols)
             p == s.problem
             cf == p.cflags[col]
             noted == [s EXCEPT !.postsolve = Append(@,
                          [type |-> "kFixedCol", col |-> col, val |-> p.lbs[col]]),
                          !.valid = @ /\ p.lbs[col] = p.ubs[col]]
             p1 == IF p.obj[col] # 0
                   THEN [p EXCEPT !.offset = @ + p.lbs[col] * p.obj[col],
                                  !.obj[col] = 0]
                   ELSE p
             p2 == removeFixedColFromRows(p1, col, ColRows(p, col))
         IN IF "Fixed" \notin cf THEN removeFixedColsFrom(s, Tail(cols))
            ELSE IF "LbInf" \in cf
            THEN removeFixedColsFrom(
                     [s EXCEPT !.postsolve = Append(@,
                         [type |-> "kFixedInfCol", col |-> col, sign |-> -1,
                          val |-> p.ubs[col]])],
                     Tail(cols))
            ELSE IF "UbInf" \in cf
            THEN removeFixedColsFrom(
                     [s EXCEPT !.postsolve = Append(@,
                         [type |-> "kFixedInfCol", col |-> col, sign |-> 1,
                          val |-> p.lbs[col]])],
                     Tail(cols))
            ELSE IF p.lbs[col] = 0 THEN removeFixedColsFrom(noted, Tail(cols))
            ELSE removeFixedColsFrom([noted EXCEPT !.problem = p2], Tail(cols))

removeFixedCols(s) == removeFixedColsFrom(s, s.update.deleted_cols)

\* the loop of removeEmptyColumns over emptyColumns
RECURSIVE removeEmptyColumnsFrom(_, _)
removeEmptyColumnsFrom(s, cols) ==
    IF cols = <<>> THEN Ret([s EXCEPT !.update.emptyColumns = <<>>], "kReduced")
    ELSE LET col == Head(cols)
             p == s.problem
             cf == p.cflags[col]
             c == p.obj[col]
             fixval == IF c = 0
                       THEN (IF "UbInf" \notin cf /\ p.ubs[col] < 0 THEN p.ubs[col]
                             ELSE IF "LbInf" \notin cf /\ p.lbs[col] > 0 THEN p.lbs[col]
                             ELSE 0)
                       ELSE IF c < 0 THEN p.ubs[col] ELSE p.lbs[col]
             s1 == IF c # 0
                   THEN [s EXCEPT !.problem.offset = @ + c * fixval,
                                  !.problem.obj[col] = 0]
                   ELSE s
             s2 == DecrColCount(
                       [s1 EXCEPT !.postsolve = Append(@,
                            [type |-> "kFixedCol", col |-> col, val |-> fixval]),
                                  !.problem.cflags[col] = @ \cup {"Fixed"},
                                  !.stats.ndeletedcols = @ + 1],
                       col)
             s3 == IF ~Test(cf, kInactive) THEN s2 ELSE s
             done == [s3 EXCEPT !.problem.colsize[col] = -1,
                                !.valid = @ /\ s3.problem.obj[col] = 0]
         IN IF p.colsize[col] # 0 THEN removeEmptyColumnsFrom(s, Tail(cols))
            ELSE IF s.options.dualreds = 1 /\ c = 0
            THEN removeEmptyColumnsFrom(s, Tail(cols))
            ELSE IF ~Test(cf, kInactive) /\ c < 0 /\ "UbInf" \in cf
            THEN Ret(s, "kUnbndOrInfeas")
            ELSE IF ~Test(cf, kInactive) /\ c > 0 /\ "LbInf" \in cf
            THEN Ret(s, "kUnbndOrInfeas")
            ELSE removeEmptyColumnsFrom(done, Tail(cols))

\* removeEmptyColumns that does not look at dualreds
removeEmptyColumnsAnyDualReds(s) ==
    IF s.update.emptyColumns # <<>>
    THEN removeEmptyColumnsFrom(s, s.update.emptyColumns)
    ELSE Ret(s, "kUnchanged")

removeEmptyColumns(s) ==
    IF s.options.dualreds # 0 /\ s.update.emptyColumns # <<>>
    THEN removeEmptyColumnsFrom(s, s.update.emptyColumns)
    ELSE Ret(s, "kUnchanged")

\* ------------------------------------------------------------------------
\* flush
\* ------------------------------------------------------------------------

\* the loop of flush (and of trivialPresolve) over singletonRows
RECURSIVE removeSingletonRows(_, _)
removeSingletonRows(s, rows) ==
    LET continue(r) == IF r.status = "kInfeasible" THEN r
                       ELSE removeSingletonRows(r.s, Tail(rows))
    IN IF rows = <<>> THEN Ret(s, "kUnchanged")
       ELSE continue(removeSingletonRow(s, Head(rows)))

\* compactSingletonColumns that forgets the second loop: the entries from
\* firstNewSingletonCol on are kept as they are
compactSingletonColumnsOldOnly(s) ==
    LET u == s.update
        p == s.problem
        single == {c \in 0..(p.ncols - 1) : p.colsize[c] = 1}
        first == u.firstNewSingletonCol
        n == Len(u.singletonColumns)
        old == SeqFilter(SubSeq(u.singletonColumns, 1, first), single)
    IN IF u.singletonColumns = <<>> THEN s
       ELSE [s EXCEPT !.update.singletonColumns =
                          old \o SubSeq(u.singletonColumns, first + 1, n),
                      !.update.firstNewSingletonCol = Len(old),
                      !.valid = @ /\ first >= 0 /\ first <= n]

\* compactSingletonColumns that leaves firstNewSingletonCol where it was
compactSingletonColumnsSplitKept(s) ==
    LET u == s.update
        p == s.problem
        single == {c \in 0..(p.ncols - 1) : p.colsize[c] = 1}
        first == u.firstNewSingletonCol
        n == Len(u.singletonColumns)
    IN IF u.singletonColumns = <<>> THEN s
       ELSE [s EXCEPT !.update.singletonColumns = SeqFilter(@, single),
                      !.valid = @ /\ first >= 0 /\ first <= n]

\* flush, lines 933-968: entries of singletonColumns whose column is no
\* singleton any more are dropped, on both sides of firstNewSingletonCol
compactSingletonColumns(s) ==
    LET u == s.update
        p == s.problem
        single == {c \in 0..(p.ncols - 1) : p.colsize[c] = 1}
        first == u.firstNewSingletonCol
        n == Len(u.singletonColumns)
        old == SeqFilter(SubSeq(u.singletonColumns, 1, first), single)
        new == SeqFilter(SubSeq(u.singletonColumns, first + 1, n), single)
    IN IF u.singletonColumns = <<>> THEN s
       ELSE [s EXCEPT !.update.singletonColumns = old \o new,
                      !.update.firstNewSingletonCol = Len(old),
                      !.valid = @ /\ first >= 0 /\ first <= n]

\* flush, first part: the singleton rows are removed and the list emptied
flushSingletonRows(s) ==
    LET emptied(r) == IF r.status = "kInfeasible" THEN r
                      ELSE Ret([r.s EXCEPT !.update.singletonRows = <<>>],
                               r.status)
    IN IF s.update.singletonRows # <<>>
       THEN emptied(removeSingletonRows(s, s.update.singletonRows))
       ELSE Ret(s, "kUnchanged")

\* flush, second part: the changed activities are tested and the rows that
\* became redundant leave the list
flushChangedActivities(s) ==
    LET live(t) == {r \in 0..(t.problem.nrows - 1) :
                       "Redundant" \notin t.problem.rflags[r]}
        filtered(r) == IF r.status = "kInfeasible" THEN r
                       ELSE Ret([r.s EXCEPT !.update.changed_activities =
                                    SeqFilter(@, live(r.s))], r.status)
    IN filtered(checkChangedActivities(s))

\* flush, last part: fixed columns, deletions, singleton and empty columns
flushColumns(s) ==
    LET result(r) == IF r.status = "kUnbndOrInfeas" THEN r
                     ELSE Ret(r.s, "kReduced")
    IN result(removeEmptyColumns(
                  compactSingletonColumns(deleteRowsAndCols(removeFixedCols(s)))))

flush(s) ==
    LET columns(r) == IF r.status = "kInfeasible" THEN r ELSE flushColumns(r.s)
        activities(r) == IF r.status = "kInfeasible" THEN r
                         ELSE columns(flushChangedActivities(r.s))
    IN activities(flushSingletonRows(flushChangedCoeffs(s)))

\* ------------------------------------------------------------------------
\* Trivial presolve
\* ------------------------------------------------------------------------

\* Problem::recomputeLocks: a finite side locks the direction in which the
\* column moves the row towards it
recomputeLocks(p) ==
    LET entries(c) == {r \in 0..(p.nrows - 1) : p.coef[r][c] # 0}
        haslhs(r) == "LhsInf" \notin p.rflags[r]
        hasrhs(r) == "RhsInf" \notin p.rflags[r]
        down(c) == Cardinality({r \in entries(c) :
                       IF p.coef[r][c] < 0 THEN hasrhs(r) ELSE haslhs(r)})
        up(c) == Cardinality({r \in entries(c) :
                       IF p.coef[r][c] < 0 THEN haslhs(r) ELSE hasrhs(r)})
    IN [p EXCEPT !.locks = [c \in 0..(p.ncols - 1) |->
                               [down |-> down(c), up |-> up(c)]]]

roundIntegralColumns(r, col) ==
    LET s == r.s
        cf == s.problem.cflags[col]
        lb == s.problem.lbs[col]
        ub == s.problem.ubs[col]
        rlb == "Integral" \in cf /\ "LbInf" \notin cf /\ Ceil(lb) # lb
        rub == "Integral" \in cf /\ "UbInf" \notin cf /\ Floor(ub) # ub
        s1 == IF rlb
              THEN [s EXCEPT !.stats.nboundchgs = @ + 1,
                             !.problem.lbs[col] = Ceil(lb)]
              ELSE s
        s2 == IF rub
              THEN [s1 EXCEPT !.stats.nboundchgs = @ + 1,
                              !.problem.ubs[col] = Floor(ub)]
              ELSE s1
    IN Ret(s2, IF rlb \/ rub THEN "kReduced" ELSE r.status)

mark_huge_values(s, col) ==
    LET cf == s.problem.cflags[col]
        lbhuge == IF "LbInf" \notin cf /\ isHugeVal(s.problem.lbs[col])
                  THEN {"LbHuge"} ELSE {}
        ubhuge == IF "UbInf" \notin cf /\ isHugeVal(s.problem.ubs[col])
                  THEN {"UbHuge"} ELSE {}
    IN [s EXCEPT !.problem.cflags[col] = @ \cup lbhuge \cup ubhuge]

\* is_dualfix_enabled that treats dualreds = 1 like dualreds = 2
is_dualfix_enabledAnyObjective(s, col) ==
    CASE s.options.dualreds = 0 -> FALSE
      [] s.options.dualreds = 1 -> TRUE
      [] s.options.dualreds = 2 -> TRUE

is_dualfix_enabled(s, col) ==
    CASE s.options.dualreds = 0 -> FALSE
      [] s.options.dualreds = 1 -> s.problem.obj[col] # 0
      [] s.options.dualreds = 2 -> TRUE

\* apply_dualfix that reads the up-locks where it should read the down-locks
apply_dualfixUpLocks(s, col) ==
    LET p == s.problem
        cf == p.cflags[col]
        godown == p.locks[col].up = 0 /\ p.obj[col] >= 0
        goup == p.locks[col].up = 0 /\ p.obj[col] <= 0
        fixdown == markColFixed(
                       [s EXCEPT !.problem.ubs[col] = p.lbs[col],
                                 !.problem.cflags[col] = @ \ {"UbInf"},
                                 !.stats.nboundchgs = @ + 1], col)
        fixup == markColFixed(
                     [s EXCEPT !.problem.lbs[col] = p.ubs[col],
                               !.problem.cflags[col] = @ \ {"LbInf"},
                               !.stats.nboundchgs = @ + 1], col)
    IN IF ~is_dualfix_enabled(s, col) THEN Ret(s, "kUnchanged")
       ELSE IF godown /\ "LbInf" \in cf /\ p.obj[col] # 0
       THEN Ret(s, "kUnbndOrInfeas")
       ELSE IF godown /\ "LbInf" \notin cf THEN Ret(fixdown, "kReduced")
       ELSE IF goup /\ "UbInf" \in cf /\ p.obj[col] # 0
       THEN Ret(s, "kUnbndOrInfeas")
       ELSE IF goup /\ "UbInf" \notin cf THEN Ret(fixup, "kReduced")
       ELSE Ret(s, "kUnchanged")

apply_dualfix(s, col) ==
    LET p == s.problem
        cf == p.cflags[col]
        godown == p.locks[col].down = 0 /\ p.obj[col] >= 0
        goup == p.locks[col].up = 0 /\ p.obj[col] <= 0
        fixdown == markColFixed(
                       [s EXCEPT !.problem.ubs[col] = p.lbs[col],
                                 !.problem.cflags[col] = @ \ {"UbInf"},
                                 !.stats.nboundchgs = @ + 1], col)
        fixup == markColFixed(
                     [s EXCEPT !.problem.lbs[col] = p.ubs[col],
                               !.problem.cflags[col] = @ \ {"LbInf"},
                               !.stats.nboundchgs = @ + 1], col)
    IN IF ~is_dualfix_enabled(s, col) THEN Ret(s, "kUnchanged")
       ELSE IF godown /\ "LbInf" \in cf /\ p.obj[col] # 0
       THEN Ret(s, "kUnbndOrInfeas")
       ELSE IF godown /\ "LbInf" \notin cf THEN Ret(fixdown, "kReduced")
       ELSE IF goup /\ "UbInf" \in cf /\ p.obj[col] # 0
       THEN Ret(s, "kUnbndOrInfeas")
       ELSE IF goup /\ "UbInf" \notin cf THEN Ret(fixup, "kReduced")
       ELSE Ret(s, "kUnchanged")

\* the loop of trivialColumnPresolve, from column col on
RECURSIVE trivialColumnPresolveFrom(_, _)
trivialColumnPresolveFrom(r, col) ==
    LET noted(t) == IF t.problem.colsize[col] = 0
                    THEN [t EXCEPT !.update.emptyColumns = Append(@, col)]
                    ELSE IF t.problem.colsize[col] = 1
                    THEN [t EXCEPT !.update.singletonColumns = Append(@, col)]
                    ELSE t
        dualfixed(d) == IF d.status = "kUnbndOrInfeas" THEN d
                        ELSE IF d.status = "kReduced"
                        THEN trivialColumnPresolveFrom(d, col + 1)
                        ELSE trivialColumnPresolveFrom(
                                 Ret(noted(d.s), d.status), col + 1)
        bounded(t) == ~Test(t.problem.cflags[col], kUnbounded)
        marked(t) == IF bounded(t) /\ t.problem.lbs[col] > t.problem.ubs[col]
                     THEN Ret(t, "kInfeasible")
                     ELSE IF bounded(t) /\ t.problem.lbs[col] = t.problem.ubs[col]
                     THEN trivialColumnPresolveFrom(
                              Ret(markColFixed(t, col), "kReduced"), col + 1)
                     ELSE dualfixed(apply_dualfix(t, col))
    IN IF col = r.s.problem.ncols THEN r
       ELSE IF Test(r.s.problem.cflags[col], kInactive)
       THEN trivialColumnPresolveFrom(r, col + 1)
       ELSE marked(mark_huge_values(roundIntegralColumns(r, col).s, col))

trivialColumnPresolve(s) == trivialColumnPresolveFrom(Ret(s, "kUnchanged"), 0)

\* the loop of cleanupSmallCoefficients over the entries of the row; the
\* coefficients of the model are nonzero integers, so none is below
\* minabscoeff and the thresholds are compared after scaling
RECURSIVE cleanupSmallCoefficientsFrom(_, _, _, _, _)
cleanupSmallCoefficientsFrom(s, row, cols, len, total_mod) ==
    IF cols = <<>> THEN s
    ELSE LET col == Head(cols)
             p == s.problem
             cf == p.cflags[col]
             v == p.coef[row][col]
             absval == Abs(v)
             width == p.ubs[col] - p.lbs[col]
             temp_total_mod == total_mod + absval * width
             dropped == [s EXCEPT !.update.matrix_buffer =
                            Append(@, [row |-> row, col |-> col, val |-> 0])]
             sidechange == v * p.lbs[col]
             rf == p.rflags[row]
             s1 == IF p.lbs[col] # 0
                   THEN [dropped EXCEPT
                            !.problem.rhs[row] =
                                IF "RhsInf" \notin rf THEN @ - sidechange ELSE @,
                            !.problem.lhs[row] =
                                IF "LhsInf" \notin rf THEN @ - sidechange ELSE @,
                            !.stats.nsidechgs =
                                @ + (IF "RhsInf" \notin rf THEN 1 ELSE 0)
                                  + (IF "LhsInf" \notin rf THEN 1 ELSE 0)]
                   ELSE dropped
             s2 == IF p.lbs[col] # 0
                      /\ ~Test(rf, {"LhsInf", "RhsInf", "Equation"})
                      /\ s1.problem.lhs[row] = s1.problem.rhs[row]
                   THEN [s1 EXCEPT !.problem.rflags[row] = @ \cup {"Equation"}]
                   ELSE s1
         IN IF Test(cf, kUnbounded \cup kInactive)
            THEN cleanupSmallCoefficientsFrom(s, row, Tail(cols), len, total_mod)
            ELSE IF ~(p.ubs[col] > p.lbs[col])
            THEN Invalid(s)
            ELSE IF absval < 1
            THEN cleanupSmallCoefficientsFrom(dropped, row, Tail(cols), len,
                                              total_mod)
            ELSE IF 1000 * absval <= 1 /\ 100 * absval * width * len <= FeasTol
                    /\ 10 * temp_total_mod <= FeasTol
            THEN cleanupSmallCoefficientsFrom(s2, row, Tail(cols), len,
                                              temp_total_mod)
            ELSE cleanupSmallCoefficientsFrom(s, row, Tail(cols), len, total_mod)

cleanupSmallCoefficients(s, row) ==
    cleanupSmallCoefficientsFrom(s, row, RowCols(s.problem, row),
                                 Len(RowCols(s.problem, row)), 0)

\* one row of trivialRowPresolve with at least two entries
trivialRowPresolveMany(r, row) ==
    LET s == r.s
        p == s.problem
        st == checkStatus(p.activities[row], p.rflags[row], p.lhs[row], p.rhs[row])
        lazy == IF ~Test(p.rflags[row], {"RhsInf", "LhsInf", "Equation"})
                   /\ p.lhs[row] = p.rhs[row]
                THEN [s EXCEPT !.problem.rflags[row] = @ \cup {"Equation"}]
                ELSE s
    IN CASE st = "kRedundant" -> Ret(markRowRedundant(s, row), "kReduced")
         [] st = "kRedundantLhs" ->
              Ret(cleanupSmallCoefficients(
                      [s EXCEPT !.problem = modifyLeftHandSide(p, row, TRUE, 0)],
                      row), "kReduced")
         [] st = "kRedundantRhs" ->
              Ret(cleanupSmallCoefficients(
                      [s EXCEPT !.problem = modifyRightHandSide(p, row, TRUE, 0)],
                      row), "kReduced")
         [] st = "kInfeasible" -> Ret(s, "kInfeasible")
         [] st = "kUnknown" -> Ret(cleanupSmallCoefficients(lazy, row), r.status)

\* the loop of trivialRowPresolve, from row row on
RECURSIVE trivialRowPresolveFrom(_, _)
trivialRowPresolveFrom(r, row) ==
    LET s == r.s
        p == s.problem
        rf == p.rflags[row]
        empty == Ret([s EXCEPT !.problem.rflags[row] = @ \cup {"Redundant"},
                               !.problem.rowsize[row] = -1], "kReduced")
        checked(done) ==
            IF done.status = "kInfeasible" THEN done
            ELSE trivialRowPresolveFrom(
                     Ret([done.s EXCEPT !.valid =
                             @ /\ EquationFlagOk(done.s.problem, row)],
                         done.status),
                     row + 1)
    IN IF row = p.nrows THEN r
       ELSE IF p.rowsize[row] = 0 /\ "LhsInf" \notin rf /\ isFeasGT(p.lhs[row], 0)
       THEN Ret(s, "kInfeasible")
       ELSE IF p.rowsize[row] = 0 /\ "RhsInf" \notin rf /\ isFeasLT(p.rhs[row], 0)
       THEN Ret(s, "kInfeasible")
       ELSE IF p.rowsize[row] = 0 THEN checked(empty)
       ELSE IF p.rowsize[row] = 1 THEN checked(removeSingletonRow(s, row))
       ELSE checked(trivialRowPresolveMany(r, row))

trivialRowPresolve(s) ==
    LET flushed(r) == IF r.status = "kInfeasible" THEN r
                      ELSE Ret(flushChangedCoeffs(r.s), r.status)
    IN flushed(trivialRowPresolveFrom(Ret(s, "kUnchanged"), 0))

\* trivialPresolve, lines 1424-1436: singletonColumns keeps its singleton
\* columns, and as many of them count as new as before
filterSingletonColumns(s) ==
    LET u == s.update
        single == {c \in 0..(s.problem.ncols - 1) : s.problem.colsize[c] = 1}
        numNewSingletonCols == Len(u.singletonColumns) - u.firstNewSingletonCol
        kept == SeqFilter(u.singletonColumns, single)
    IN IF u.singletonColumns = <<>> THEN s
       ELSE [s EXCEPT !.update.singletonColumns = kept,
                      !.update.firstNewSingletonCol =
                          Max(0, Len(kept) - numNewSingletonCols),
                      !.valid = @ /\ numNewSingletonCols >= 0]

\* trivialPresolve, lines 1445-1457: the rows whose activity can be tested
boundedRows(s) ==
    LET p == s.problem
    IN SortedSeq({r \in 0..(p.nrows - 1) :
           /\ "Redundant" \notin p.rflags[r]
           /\ \/ p.activities[r].ninfmin = 0
              \/ p.activities[r].ninfmax = 0
              \/ (p.activities[r].ninfmax = 1 /\ "LhsInf" \notin p.rflags[r])
              \/ (p.activities[r].ninfmin = 1 /\ "RhsInf" \notin p.rflags[r])})

\* trivialPresolve from the test of the changed activities on: the list is
\* rebuilt from the rows whose activity can be tested, then flush() runs and
\* its return value is dropped
trivialPresolveActivities(s) ==
    LET flushed(t, status) == Ret(noteStep(flush(t)).s, status)
        rebuilt(r) == IF Stops(r.status) THEN r
                      ELSE flushed([r.s EXCEPT !.update.changed_activities =
                                       boundedRows(r.s)], r.status)
    IN rebuilt(noteStep(checkChangedActivities(s)))

\* trivialPresolve after the row presolve: fixed columns, deletions and the
\* singleton rows they left
trivialPresolveRemove(s) ==
    LET singletons(r) == IF r.status = "kInfeasible" THEN r
                         ELSE trivialPresolveActivities(filterSingletonColumns(r.s))
        removeFrom(t) ==
            singletons(noteStep(removeSingletonRows(t, t.update.singletonRows)))
    IN removeFrom(deleteRowsAndCols(removeFixedCols(s)))

trivialPresolve(s) ==
    LET rows(r) == IF Stops(r.status) THEN r ELSE trivialPresolveRemove(r.s)
        columns(r) == IF Stops(r.status) THEN r
                      ELSE rows(noteStep(trivialRowPresolve(
                               [r.s EXCEPT !.problem = recomputeAllActivities(@)])))
    IN columns(noteStep(trivialColumnPresolve(
                   IF s.options.dualreds # 0
                   THEN [s EXCEPT !.problem = recomputeLocks(@)]
                   ELSE s)))

\* ------------------------------------------------------------------------
\* Reductions (papilo/core/Reductions.hpp): a record is [row, col, newval];
\* a negative row is a column operation, a negative col a row operation
\* ------------------------------------------------------------------------

ColReduction ==
    [NONE |-> -1, LOCKED |-> -2, LOCKED_STRONG |-> -3, BOUNDS_LOCKED |-> -4,
     OBJECTIVE |-> -5, FIXED |-> -6, FIXED_INFINITY |-> -7, LOWER_BOUND |-> -8,
     UPPER_BOUND |-> -9, IMPL_INT |-> -10, SUBSTITUTE |-> -11,
     SUBSTITUTE_OBJ |-> -12, PARALLEL |-> -13, REPLACE |-> -14]

RowReduction ==
    [NONE |-> -1, LOCKED |-> -2, LOCKED_STRONG |-> -3, LHS |-> -4, RHS |-> -5,
     LHS_INF |-> -6, RHS_INF |-> -7, REDUNDANT |-> -8, SPARSIFY |-> -9]

Reduction(row, col, newval) == [row |-> row, col |-> col, newval |-> newval]

\* ------------------------------------------------------------------------
\* checkTransactionConflicts
\* ------------------------------------------------------------------------

\* checkCoefficientConflict that looks at the row only
checkCoefficientConflictRowOnly(s, reduction) ==
    IF "Locked" \in s.update.row_state[reduction.row]
    THEN "kConflict" ELSE "kNoConflict"

\* a coefficient change: neither the row nor the column may be locked
checkCoefficientConflict(s, reduction) ==
    IF \/ "Locked" \in s.update.col_state[reduction.col]
       \/ "Locked" \in s.update.row_state[reduction.row]
    THEN "kConflict" ELSE "kNoConflict"

\* checkColConflict with exclusive locks: a lock request also conflicts
\* with a lock that is already held
checkColConflictExclusive(s, reduction) ==
    LET u == s.update
        colop == reduction.row
        col == reduction.col
    IN CASE colop \in {ColReduction.LOCKED_STRONG, ColReduction.LOCKED} ->
              IF Test(u.col_state[col], {"Modified", "Locked"})
              THEN "kConflict" ELSE "kNoConflict"
         [] colop = ColReduction.OBJECTIVE ->
              IF "Locked" \in u.col_state[col]
              THEN "kConflict" ELSE "kNoConflict"
         [] colop = ColReduction.BOUNDS_LOCKED ->
              IF "BoundsModified" \in u.col_state[col]
              THEN "kConflict" ELSE "kNoConflict"
         [] colop \in {ColReduction.PARALLEL, ColReduction.SUBSTITUTE_OBJ} ->
              "kNoConflict"
         [] colop \in {ColReduction.SUBSTITUTE, ColReduction.REPLACE} ->
              IF u.postponeSubstitutions THEN "kPostpone" ELSE "kNoConflict"
         [] OTHER -> "kNoConflict"

\* checkColConflict with one bit for every kind of lock request
checkColConflictOneBit(s, reduction) ==
    LET u == s.update
        colop == reduction.row
        col == reduction.col
    IN CASE colop \in {ColReduction.LOCKED_STRONG, ColReduction.LOCKED} ->
              IF "Modified" \in u.col_state[col]
              THEN "kConflict" ELSE "kNoConflict"
         [] colop = ColReduction.OBJECTIVE ->
              IF "Locked" \in u.col_state[col]
              THEN "kConflict" ELSE "kNoConflict"
         [] colop = ColReduction.BOUNDS_LOCKED ->
              IF "Modified" \in u.col_state[col]
              THEN "kConflict" ELSE "kNoConflict"
         [] colop \in {ColReduction.PARALLEL, ColReduction.SUBSTITUTE_OBJ} ->
              "kNoConflict"
         [] colop \in {ColReduction.SUBSTITUTE, ColReduction.REPLACE} ->
              IF u.postponeSubstitutions THEN "kPostpone" ELSE "kNoConflict"
         [] OTHER -> "kNoConflict"

\* a column operation (reduction.row < 0)
checkColConflict(s, reduction) ==
    LET u == s.update
        colop == reduction.row
        col == reduction.col
    IN CASE colop \in {ColReduction.LOCKED_STRONG, ColReduction.LOCKED} ->
              IF "Modified" \in u.col_state[col]
              THEN "kConflict" ELSE "kNoConflict"
         [] colop = ColReduction.OBJECTIVE ->
              IF "Locked" \in u.col_state[col]
              THEN "kConflict" ELSE "kNoConflict"
         [] colop = ColReduction.BOUNDS_LOCKED ->
              IF "BoundsModified" \in u.col_state[col]
              THEN "kConflict" ELSE "kNoConflict"
         [] colop \in {ColReduction.PARALLEL, ColReduction.SUBSTITUTE_OBJ} ->
              "kNoConflict"
         [] colop \in {ColReduction.SUBSTITUTE, ColReduction.REPLACE} ->
              IF u.postponeSubstitutions THEN "kPostpone" ELSE "kNoConflict"
         [] OTHER -> "kNoConflict"

\* checkRowConflict that overlooks BoundsModified
checkRowConflictModifiedOnly(s, reduction) ==
    LET u == s.update
        rowop == reduction.col
        row == reduction.row
    IN CASE rowop \in {RowReduction.LOCKED_STRONG, RowReduction.LOCKED} ->
              IF "Modified" \in u.row_state[row]
              THEN "kConflict" ELSE "kNoConflict"
         [] rowop \in {RowReduction.LHS_INF, RowReduction.LHS} ->
              IF "Locked" \in u.row_state[row]
              THEN "kConflict" ELSE "kNoConflict"
         [] rowop \in {RowReduction.RHS_INF, RowReduction.RHS} ->
              IF "Locked" \in u.row_state[row]
              THEN "kConflict" ELSE "kNoConflict"
         [] rowop = RowReduction.SPARSIFY ->
              IF u.postponeSubstitutions THEN "kPostpone" ELSE "kNoConflict"
         [] OTHER -> "kNoConflict"

\* a row operation (reduction.col < 0)
checkRowConflict(s, reduction) ==
    LET u == s.update
        rowop == reduction.col
        row == reduction.row
    IN CASE rowop \in {RowReduction.LOCKED_STRONG, RowReduction.LOCKED} ->
              IF Test(u.row_state[row], {"Modified", "BoundsModified"})
              THEN "kConflict" ELSE "kNoConflict"
         [] rowop \in {RowReduction.LHS_INF, RowReduction.LHS} ->
              IF "Locked" \in u.row_state[row]
              THEN "kConflict" ELSE "kNoConflict"
         [] rowop \in {RowReduction.RHS_INF, RowReduction.RHS} ->
              IF "Locked" \in u.row_state[row]
              THEN "kConflict" ELSE "kNoConflict"
         [] rowop = RowReduction.SPARSIFY ->
              IF u.postponeSubstitutions THEN "kPostpone" ELSE "kNoConflict"
         [] OTHER -> "kNoConflict"

\* the body of the loop of checkTransactionConflicts for one record:
\* kNoConflict stands for "go on to the next record"
checkReductionConflict(s, reduction) ==
    IF reduction.row >= 0 /\ reduction.col >= 0
    THEN checkCoefficientConflict(s, reduction)
    ELSE IF reduction.row < 0
    THEN checkColConflict(s, reduction)
    ELSE checkRowConflict(s, reduction)

RECURSIVE checkTransactionConflicts(_, _)
checkTransactionConflicts(s, tx) ==
    IF tx = <<>> THEN "kNoConflict"
    ELSE LET c == checkReductionConflict(s, Head(tx))
         IN IF c # "kNoConflict" THEN c
            ELSE checkTransactionConflicts(s, Tail(tx))

\* ------------------------------------------------------------------------
\* Substitution and sparsification in the matrix (ConstraintMatrix, Problem)
\* An equality is given densely: eq[c] is the coefficient of column c.
\* ------------------------------------------------------------------------

DenseRow(p, row) == [c \in 0..(p.ncols - 1) |-> p.coef[row][c]]

EqCols(p, eq) == SortedSeq({c \in 0..(p.ncols - 1) : eq[c] # 0})

\* Problem::substituteVarInObj: the objective term of col is rewritten with
\* the equality row
substituteVarInObj(s, col, equalityrow) ==
    LET p == s.problem
        a == p.coef[equalityrow][col]
        exact == Divides(a, p.obj[col])
        substscale == Quot(-p.obj[col], a)
        newobj == [c \in 0..(p.ncols - 1) |->
                      IF c = col THEN 0
                      ELSE p.obj[c] + p.coef[equalityrow][c] * substscale]
    IN IF p.obj[col] = 0 THEN s
       ELSE [s EXCEPT !.problem.obj = newobj,
                      !.problem.offset = @ - p.rhs[equalityrow] * substscale,
                      !.valid = @ /\ exact]

\* the rows, other than the equality row itself, that hold column col
RelevantRows(p, col, eqrow) ==
    {r \in 0..(p.nrows - 1) : p.coef[r][col] # 0 /\ r # eqrow}

\* ConstraintMatrix::checkAggregationSparsityCondition: no row may gain more
\* than maxshiftperrow entries and the matrix no more than maxfillin
checkAggregationSparsityCondition(p, col, eq, eqrow, maxfillin, maxshiftperrow) ==
    LET shift(r) == Cardinality({c \in 0..(p.ncols - 1) :
                        eq[c] # 0 /\ c # col /\ p.coef[r][c] = 0})
        rows == RelevantRows(p, col, eqrow)
        RECURSIVE Total(_)
        Total(R) == IF R = {} THEN 0
                    ELSE LET r == CHOOSE x \in R : TRUE
                         IN shift(r) + Total(R \ {r})
        removed == NnzCol(p.coef, p.nrows, col)
    IN /\ \A r \in rows : shift(r) <= maxshiftperrow
       /\ Total(rows) - removed <= maxfillin

\* the note aggregate and sparsify leave for a row they rewrote
NoteRewrittenRow(s, row) ==
    LET a == compute_row_activity(s.problem, row)
        changed == s.problem.activities[row].lastchange # s.stats.nrounds
    IN [s EXCEPT !.problem.activities[row] =
                     [min |-> a.min, max |-> a.max, ninfmin |-> a.ninfmin,
                      ninfmax |-> a.ninfmax, lastchange |-> s.stats.nrounds],
                 !.update.changed_activities =
                     IF changed THEN Append(@, row) ELSE @]

RECURSIVE NoteRewrittenRows(_, _)
NoteRewrittenRows(s, rows) ==
    IF rows = <<>> THEN s
    ELSE NoteRewrittenRows(NoteRewrittenRow(s, Head(rows)), Tail(rows))

\* ConstraintMatrix::aggregate: column col is eliminated with the equality
\* eq = eqrhs from every row that holds it; the equality row, if it is a
\* row of the matrix (eqrow >= 0), and the column leave the storage
aggregate(s, col, eq, eqrhs, eqrow) ==
    LET p == s.problem
        rows == RelevantRows(p, col, eqrow)
        exact == \A r \in rows : Divides(eq[col], p.coef[r][col])
        q(r) == Quot(p.coef[r][col], eq[col])
        newcoef == [r \in 0..(p.nrows - 1) |-> [c \in 0..(p.ncols - 1) |->
                       IF r = eqrow \/ c = col THEN 0
                       ELSE IF r \in rows THEN p.coef[r][c] - q(r) * eq[c]
                       ELSE p.coef[r][c]]]
        p1 == [p EXCEPT
                 !.lhs = [r \in 0..(p.nrows - 1) |->
                            IF r = eqrow THEN 0
                            ELSE IF r \in rows /\ "LhsInf" \notin p.rflags[r]
                            THEN p.lhs[r] - q(r) * eqrhs ELSE p.lhs[r]],
                 !.rhs = [r \in 0..(p.nrows - 1) |->
                            IF r = eqrow THEN 0
                            ELSE IF r \in rows /\ "RhsInf" \notin p.rflags[r]
                            THEN p.rhs[r] - q(r) * eqrhs ELSE p.rhs[r]],
                 !.rflags = [r \in 0..(p.nrows - 1) |->
                            IF r = eqrow THEN p.rflags[r] \cup {"Redundant"}
                            ELSE p.rflags[r]]]
        s1 == StoreMatrix([s EXCEPT !.problem = p1, !.valid = @ /\ exact],
                          newcoef, {eqrow} \cap (0..(p.nrows - 1)), {col})
    IN NoteRewrittenRows(s1, SortedSeq(rows))

\* ConstraintMatrix::sparsify: scale times the equality row is added to the
\* candidate row if that cancels entries; returns how many
sparsify(s, eqrow, scale, candrow) ==
    LET p == s.problem
        newrow == [c \in 0..(p.ncols - 1) |->
                      p.coef[candrow][c] + scale * p.coef[eqrow][c]]
        canceled == NnzRow(p.coef, p.ncols, candrow)
                    - Cardinality({c \in 0..(p.ncols - 1) : newrow[c] # 0})
        shiftby == scale * p.rhs[eqrow]
        p1 == [p EXCEPT
                 !.lhs[candrow] =
                     IF "LhsInf" \notin p.rflags[candrow] THEN @ + shiftby ELSE @,
                 !.rhs[candrow] =
                     IF "RhsInf" \notin p.rflags[candrow] THEN @ + shiftby ELSE @]
        s1 == StoreMatrix([s EXCEPT !.problem = p1],
                          [p.coef EXCEPT ![candrow] = newrow], {}, {})
    IN IF canceled <= 0 THEN [s |-> s, canceled |-> 0]
       ELSE [s |-> NoteRewrittenRow(s1, candrow), canceled |-> canceled]

\* ------------------------------------------------------------------------
\* applyTransaction, record by record.  A record handler returns the state
\* with "kContinue" (go on with the next record), or with the result the
\* transaction ends with at that record.
\* ------------------------------------------------------------------------

\* s.trace lists the statuses the mutators called by the transaction returned
noteMutator(r) == [r EXCEPT !.s.trace = Append(@, r.status)]

\* abortIfInfeasible that drops the mutator's status and goes on
abortNever(r) == Ret(noteMutator(r).s, "kContinue")

\* if( mutator( ... ) == PresolveStatus::kInfeasible ) return kInfeasible
abortIfInfeasible(r) ==
    IF r.status = "kInfeasible" THEN Ret(noteMutator(r).s, "kInfeasible")
    ELSE Ret(noteMutator(r).s, "kContinue")

applyCoefficient(s, reduction) ==
    LET s1 == setRowState(s, reduction.row, {"Modified"})
        s2 == setColState(s1, reduction.col, {"Modified"})
    IN Ret([s2 EXCEPT !.update.matrix_buffer =
                Append(@, [row |-> reduction.row, col |-> reduction.col,
                           val |-> reduction.newval])],
           "kContinue")

applyObjective(s, reduction) ==
    Ret([setColState(s, reduction.col, {"Modified"})
            EXCEPT !.problem.obj[reduction.col] = reduction.newval],
        "kContinue")

applyImplInt(s, col) ==
    LET upper(t) == IF "UbInf" \notin t.problem.cflags[col]
                    THEN abortIfInfeasible(changeUB(t, col, t.problem.ubs[col]))
                    ELSE Ret(t, "kContinue")
        lowered(r) == IF r.status = "kInfeasible" THEN r ELSE upper(r.s)
        lower(t) == IF "LbInf" \notin t.problem.cflags[col]
                    THEN lowered(abortIfInfeasible(
                                     changeLB(t, col, t.problem.lbs[col])))
                    ELSE upper(t)
    IN IF Test(s.problem.cflags[col], kInactive) THEN Ret(s, "kContinue")
       ELSE lower([s EXCEPT !.problem.cflags[col] = @ \cup {"ImplInt"}])

\* postsolve.notifySubstitution( col, equality, rhs )
notifySubstitution(s, col, eq, rhs) ==
    [s EXCEPT !.postsolve =
        Append(@, [type |-> "kSubstitutedCol", col |-> col, eq |-> eq, rhs |-> rhs])]

\* applySubstitute that does not test the sparsity condition
applySubstituteUnchecked(s, reduction) ==
    LET p == s.problem
        col == reduction.col
        equalityrow == reduction.newval
        rowcols == RowCols(p, equalityrow)
        length == Len(rowcols)
        colrows == ColRows(p, col)
        nbrelevantrows == Len(colrows)
        eq == DenseRow(p, equalityrow)
        eqRHS == p.lhs[equalityrow]
        pre == /\ s.update.row_state[equalityrow] = {}
               /\ "BoundsModified" \notin s.update.col_state[col]
               /\ ~Test(p.cflags[col], kInactive)
               /\ p.coef[equalityrow][col] # 0
        counted(t) ==
            DecrColCount(
                [t EXCEPT !.stats.ncoefchgs = @ + length * nbrelevantrows,
                          !.stats.ndeletedcols = @ + 1,
                          !.stats.ndeletedrows = @ + 1,
                          !.stats.nsidechgs =
                              IF t.problem.lhs[equalityrow] # 0
                              THEN @ + 2 * nbrelevantrows ELSE @],
                col)
        substituted ==
            aggregate(
                notifySubstitution(
                    setColStates(
                        setRowStates(
                            substituteVarInObj(
                                [s EXCEPT !.problem.cflags[col] =
                                              @ \cup {"Substituted"},
                                          !.valid = @ /\ pre],
                                col, equalityrow),
                            colrows, {"Modified"}),
                        rowcols, {"Modified"}),
                    col, eq, eqRHS),
                col, eq, eqRHS, equalityrow)
    IN IF length = 1
       THEN abortIfInfeasible(
                fixCol([s EXCEPT !.valid =
                           @ /\ ~Test(p.rflags[equalityrow], {"LhsInf", "RhsInf"})
                             /\ Divides(p.coef[equalityrow][rowcols[1]],
                                        p.lhs[equalityrow])],
                       col,
                       Quot(p.lhs[equalityrow], p.coef[equalityrow][rowcols[1]])))
       ELSE Ret(counted(substituted), "kContinue")

applySubstitute(s, reduction) ==
    LET p == s.problem
        col == reduction.col
        equalityrow == reduction.newval
        rowcols == RowCols(p, equalityrow)
        length == Len(rowcols)
        colrows == ColRows(p, col)
        nbrelevantrows == Len(colrows)
        eq == DenseRow(p, equalityrow)
        eqRHS == p.lhs[equalityrow]
        pre == /\ s.update.row_state[equalityrow] = {}
               /\ "BoundsModified" \notin s.update.col_state[col]
               /\ ~Test(p.cflags[col], kInactive)
               /\ p.coef[equalityrow][col] # 0
        counted(t) ==
            DecrColCount(
                [t EXCEPT !.stats.ncoefchgs = @ + length * nbrelevantrows,
                          !.stats.ndeletedcols = @ + 1,
                          !.stats.ndeletedrows = @ + 1,
                          !.stats.nsidechgs =
                              IF t.problem.lhs[equalityrow] # 0
                              THEN @ + 2 * nbrelevantrows ELSE @],
                col)
        substituted ==
            aggregate(
                notifySubstitution(
                    setColStates(
                        setRowStates(
                            substituteVarInObj(
                                [s EXCEPT !.problem.cflags[col] =
                                              @ \cup {"Substituted"},
                                          !.valid = @ /\ pre],
                                col, equalityrow),
                            colrows, {"Modified"}),
                        rowcols, {"Modified"}),
                    col, eq, eqRHS),
                col, eq, eqRHS, equalityrow)
    IN IF length = 1
       THEN abortIfInfeasible(
                fixCol([s EXCEPT !.valid =
                           @ /\ ~Test(p.rflags[equalityrow], {"LhsInf", "RhsInf"})
                             /\ Divides(p.coef[equalityrow][rowcols[1]],
                                        p.lhs[equalityrow])],
                       col,
                       Quot(p.lhs[equalityrow], p.coef[equalityrow][rowcols[1]])))
       ELSE IF ~checkAggregationSparsityCondition(
                    p, col, eq, equalityrow,
                    s.options.maxfillinpersubstitution, s.options.maxshiftperrow)
       THEN Ret([s EXCEPT !.valid = @ /\ pre], "kRejected")
       ELSE Ret(counted(substituted), "kContinue")

applySubstituteObj(s, reduction) ==
    LET p == s.problem
        col == reduction.col
        equalityrow == reduction.newval
        s1 == [s EXCEPT !.problem.cflags[col] = @ \cup {"Substituted"},
                        !.valid = @ /\ ~Test(p.cflags[col], kInactive)
                                    /\ p.coef[equalityrow][col] # 0]
        s2 == substituteVarInObj(s1, col, equalityrow)
        s3 == IF Test(p.cflags[col], kLbUseless) \/ p.lbs[col] # 0
              THEN update_activities_after_boundchange(
                       s2, ColVals(p, col), ColRows(p, col), "kLower",
                       p.lbs[col], 0, Test(p.cflags[col], kLbUseless), TRUE)
              ELSE s2
        s4 == IF Test(p.cflags[col], kUbUseless) \/ p.ubs[col] # 0
              THEN update_activities_after_boundchange(
                       s3, ColVals(p, col), ColRows(p, col), "kUpper",
                       p.ubs[col], 0, Test(p.cflags[col], kUbUseless), TRUE)
              ELSE s3
        s5 == [s4 EXCEPT !.problem.cflags[col] = @ \ (kLbUseless \cup kUbUseless),
                         !.problem.lbs[col] = 0,
                         !.problem.ubs[col] = 0,
                         !.update.deleted_cols = Append(@, col)]
        s6 == notifySubstitution(s5, col, DenseRow(p, equalityrow),
                                 p.lhs[equalityrow])
        s7 == setColStates(s6, RowCols(p, equalityrow), {"Modified"})
    IN Ret(DecrColCount([s7 EXCEPT !.stats.ndeletedcols = @ + 1], col),
           "kContinue")

\* ParallelDomain that pairs lower with lower and upper with upper bound
\* whatever the sign of the scale
ParallelDomainUnswapped(p, col1, col2, col2scale) ==
    LET f1 == p.cflags[col1]
        f2 == p.cflags[col2]
        lbFrom1 == "Lb"
        ubFrom1 == "Ub"
        bound1(side) == IF side = "Lb" THEN p.lbs[col1] ELSE p.ubs[col1]
        inf1(side) == (IF side = "Lb" THEN "LbInf" ELSE "UbInf") \in f1
        huge1(side) == (IF side = "Lb" THEN "LbHuge" ELSE "UbHuge") \in f1
        haslb == "LbInf" \notin f2 /\ ~inf1(lbFrom1)
        hasub == "UbInf" \notin f2 /\ ~inf1(ubFrom1)
        lbflags == IF ~haslb THEN {"LbInf"}
                   ELSE IF huge1(lbFrom1) \/ "LbHuge" \in f2 THEN {"LbHuge"}
                   ELSE {}
        ubflags == IF ~hasub THEN {"UbInf"}
                   ELSE IF huge1(ubFrom1) \/ "UbHuge" \in f2 THEN {"UbHuge"}
                   ELSE {}
    IN [newlb |-> IF haslb THEN p.lbs[col2] + col2scale * bound1(lbFrom1) ELSE 0,
        newub |-> IF hasub THEN p.ubs[col2] + col2scale * bound1(ubFrom1) ELSE 0,
        newflags |-> (IF "Integral" \in f1 THEN {"Integral"} ELSE {})
                     \cup lbflags \cup ubflags]

\* the domain of the merged column of two parallel columns: column 2 takes
\* over col2 + col2scale * col1
ParallelDomain(p, col1, col2, col2scale) ==
    LET f1 == p.cflags[col1]
        f2 == p.cflags[col2]
        lbFrom1 == IF col2scale < 0 THEN "Ub" ELSE "Lb"
        ubFrom1 == IF col2scale < 0 THEN "Lb" ELSE "Ub"
        bound1(side) == IF side = "Lb" THEN p.lbs[col1] ELSE p.ubs[col1]
        inf1(side) == (IF side = "Lb" THEN "LbInf" ELSE "UbInf") \in f1
        huge1(side) == (IF side = "Lb" THEN "LbHuge" ELSE "UbHuge") \in f1
        haslb == "LbInf" \notin f2 /\ ~inf1(lbFrom1)
        hasub == "UbInf" \notin f2 /\ ~inf1(ubFrom1)
        lbflags == IF ~haslb THEN {"LbInf"}
                   ELSE IF huge1(lbFrom1) \/ "LbHuge" \in f2 THEN {"LbHuge"}
                   ELSE {}
        ubflags == IF ~hasub THEN {"UbInf"}
                   ELSE IF huge1(ubFrom1) \/ "UbHuge" \in f2 THEN {"UbHuge"}
                   ELSE {}
    IN [newlb |-> IF haslb THEN p.lbs[col2] + col2scale * bound1(lbFrom1) ELSE 0,
        newub |-> IF hasub THEN p.ubs[col2] + col2scale * bound1(ubFrom1) ELSE 0,
        newflags |-> (IF "Integral" \in f1 THEN {"Integral"} ELSE {})
                     \cup lbflags \cup ubflags]

\* the activity bookkeeping of one side (type) of the merged column when its
\* new bound is useless; only one of the six calls of the source notifies
ParallelActivities(s, col1, col2, col2scale, type, notifyCol2) ==
    LET p == s.problem
        useless == IF type = "kLower" THEN kLbUseless ELSE kUbUseless
        bound2 == IF type = "kLower" THEN p.lbs[col2] ELSE p.ubs[col2]
        type1 == IF col2scale < 0
                 THEN (IF type = "kLower" THEN "kUpper" ELSE "kLower")
                 ELSE type
        useless1 == IF type1 = "kLower" THEN kLbUseless ELSE kUbUseless
        bound1 == IF type1 = "kLower" THEN p.lbs[col1] ELSE p.ubs[col1]
        inds == ColRows(p, col1)
    IN IF ~Test(p.cflags[col2], useless)
       THEN IF bound2 # 0
            THEN update_activities_after_boundchange(
                     s, ColVals(p, col2), inds, type, bound2, 0, FALSE,
                     notifyCol2)
            ELSE s
       ELSE IF Test(p.cflags[col1], useless1) \/ bound1 # 0
            THEN update_activities_after_boundchange(
                     s, ColVals(p, col1), inds, type1, bound1, 0,
                     Test(p.cflags[col1], useless1), FALSE)
            ELSE s

applyParallel(s, reduction) ==
    LET p == s.problem
        col1 == reduction.col
        col2 == reduction.newval
        vals1 == ColVals(p, col1)
        vals2 == ColVals(p, col2)
        collen == Len(vals1)
        shaped == collen > 0 /\ Len(vals2) = collen /\ Divides(vals2[1], vals1[1])
        col2scale == Quot(vals1[1], vals2[1])
        dom == ParallelDomain(p, col1, col2, col2scale)
        s1 == setColState(s, col1, {"BoundsModified"})
        s2 == setColState(s1, col2, {"BoundsModified"})
        s3 == [s2 EXCEPT
                 !.valid = @ /\ p.obj[col1] = p.obj[col2] * col2scale,
                 !.postsolve = Append(@,
                     [type |-> "kParallelCol", col1 |-> col1, col2 |-> col2,
                      col1flags |-> p.cflags[col1] \cap {"Integral", "LbInf", "UbInf"},
                      col1lb |-> p.lbs[col1], col1ub |-> p.ubs[col1],
                      col2flags |-> p.cflags[col2] \cap {"Integral", "LbInf", "UbInf"},
                      col2lb |-> p.lbs[col2], col2ub |-> p.ubs[col2],
                      col2scale |-> col2scale]),
                 !.stats.ndeletedcols = @ + 1,
                 !.problem.nintcols =
                     IF "Integral" \in p.cflags[col1] \/ "Integral" \in p.cflags[col2]
                     THEN @ - 1 ELSE @,
                 !.problem.ncontcols =
                     IF "Integral" \in p.cflags[col1] \/ "Integral" \in p.cflags[col2]
                     THEN @ ELSE @ - 1]
        s4 == IF Test(dom.newflags, kLbUseless)
              THEN ParallelActivities(s3, col1, col2, col2scale, "kLower", FALSE)
              ELSE s3
        s5 == IF Test(dom.newflags, kUbUseless)
              THEN ParallelActivities(s4, col1, col2, col2scale, "kUpper", TRUE)
              ELSE s4
    IN IF Test(p.cflags[col1], kInactive) \/ Test(p.cflags[col2], kInactive)
       THEN Ret(s, "kRejected")
       ELSE IF ~shaped THEN Ret(Invalid(s2), "kContinue")
       ELSE Ret([s5 EXCEPT
                   !.problem.lbs[col1] = 0,
                   !.problem.ubs[col1] = 0,
                   !.problem.cflags[col1] =
                       (@ \ (kLbUseless \cup kUbUseless)) \cup {"Substituted"},
                   !.update.deleted_cols = Append(@, col1),
                   !.problem.lbs[col2] = dom.newlb,
                   !.problem.ubs[col2] = dom.newub,
                   !.problem.cflags[col2] = dom.newflags],
                "kContinue")

\* REPLACE takes two records: (factor, REPLACE, col1) and (offset, NONE, col2),
\* standing for col1 = factor * col2 + offset
applyReplace(s, reduction, second) ==
    LET p == s.problem
        col1 == reduction.col
        factor == reduction.newval
        col2 == second.col
        offset == second.newval
        sv == [s EXCEPT !.valid = @ /\ second.row = ColReduction.NONE]
        fixed1 == "Fixed" \in p.cflags[col1]
        fixed2 == "Fixed" \in p.cflags[col2]
        exact(a) == Divides(factor, a - offset)
        imp_lb == IF factor > 0 THEN p.lbs[col1] ELSE p.ubs[col1]
        imp_ub == IF factor > 0 THEN p.ubs[col1] ELSE p.lbs[col1]
        col2_imp_lb == Quot(imp_lb - offset, factor)
        col2_imp_ub == Quot(imp_ub - offset, factor)
        sb == [sv EXCEPT !.valid = @ /\ p.colsize[col1] > 0 /\ p.colsize[col2] > 0
                                     /\ exact(imp_lb) /\ exact(imp_ub)]
        eq == [c \in 0..(p.ncols - 1) |->
                  IF c = col1 THEN 1 ELSE IF c = col2 THEN -factor ELSE 0]
        length == Len(ColRows(p, col1))
        objective(t) ==
            IF t.problem.obj[col1] # 0
            THEN [t EXCEPT !.problem.obj[col2] = @ + t.problem.obj[col1] * factor,
                           !.problem.offset = @ + t.problem.obj[col1] * offset,
                           !.problem.obj[col1] = 0]
            ELSE t
        replace(t) ==
            [objective(
                 setColState(
                     setColState(
                         aggregate(
                             notifySubstitution(
                                 setRowStates(
                                     DecrColCount(
                                         [t EXCEPT !.problem.cflags[col1] =
                                                       @ \cup {"Substituted"}],
                                         col1),
                                     ColRows(p, col1), {"Modified"}),
                                 col1, eq, offset),
                             col1, eq, offset, -1),
                         col1, {"Modified"}),
                     col2, {"Modified"}))
             EXCEPT !.stats.nsidechgs = IF offset # 0 THEN @ + 2 * length ELSE @,
                    !.stats.ncoefchgs = @ + 2 * length,
                    !.stats.ndeletedcols = @ + 1]
        tightened(r) ==
            IF r.status = "kInfeasible" THEN r
            ELSE IF checkAggregationSparsityCondition(
                        p, col1, eq, -1, s.options.maxfillinpersubstitution,
                        s.options.maxshiftperrow)
            THEN Ret(replace(r.s), "kContinue")
            ELSE Ret(r.s, "kContinue")
    IN IF fixed1 \/ fixed2
       THEN IF ~Test(p.cflags[col1], kInactive)
            THEN abortIfInfeasible(
                     fixCol([sv EXCEPT !.valid = @ /\ fixed2], col1,
                            factor * p.lbs[col2] + offset))
            ELSE IF ~Test(p.cflags[col2], kInactive)
            THEN abortIfInfeasible(
                     fixCol([sv EXCEPT !.valid = @ /\ fixed1 /\ exact(p.lbs[col1])],
                            col2, Quot(p.lbs[col1] - offset, factor)))
            ELSE Ret(sv, "kContinue")
       ELSE IF Test(p.cflags[col1], kInactive) \/ Test(p.cflags[col2], kInactive)
       THEN Ret(sv, "kContinue")
       ELSE IF col2_imp_lb > p.lbs[col2]
       THEN tightened(abortIfInfeasible(changeLB(sb, col2, col2_imp_lb)))
       ELSE IF col2_imp_ub < p.ubs[col2]
       THEN tightened(abortIfInfeasible(changeUB(sb, col2, col2_imp_ub)))
       ELSE tightened(Ret(sb, "kContinue"))

\* applyLhs that writes the side without ConstraintMatrix::modifyLeftHandSide
applyLhsDirectly(s, reduction) ==
    LET p == s.problem
        row == reduction.row
        wasinf == "LhsInf" \in p.rflags[row]
        s0 == [s EXCEPT !.valid = @ /\ (wasinf \/ reduction.newval # p.lhs[row])]
        s1 == setRowState(s0, row, {"BoundsModified"})
        s2 == IF wasinf THEN setColStates(s1, RowCols(p, row), {"Modified"}) ELSE s1
    IN Ret([s2 EXCEPT !.problem.lhs[row] = reduction.newval,
                      !.problem.rflags[row] = @ \ {"LhsInf"},
                      !.stats.nsidechgs = @ + 1],
           "kContinue")

applyLhs(s, reduction) ==
    LET p == s.problem
        row == reduction.row
        wasinf == "LhsInf" \in p.rflags[row]
        s0 == [s EXCEPT !.valid = @ /\ (wasinf \/ reduction.newval # p.lhs[row])]
        s1 == setRowState(s0, row, {"BoundsModified"})
        s2 == IF wasinf THEN setColStates(s1, RowCols(p, row), {"Modified"}) ELSE s1
    IN Ret([s2 EXCEPT !.problem = modifyLeftHandSide(@, row, FALSE, reduction.newval),
                      !.stats.nsidechgs = @ + 1],
           "kContinue")

applyRhs(s, reduction) ==
    LET p == s.problem
        row == reduction.row
        wasinf == "RhsInf" \in p.rflags[row]
        s0 == [s EXCEPT !.valid = @ /\ (wasinf \/ reduction.newval # p.rhs[row])]
        s1 == setRowState(s0, row, {"BoundsModified"})
        s2 == IF wasinf THEN setColStates(s1, RowCols(p, row), {"Modified"}) ELSE s1
    IN Ret([s2 EXCEPT !.problem = modifyRightHandSide(@, row, FALSE, reduction.newval),
                      !.stats.nsidechgs = @ + 1],
           "kContinue")

applyLhsInf(s, row) ==
    IF "LhsInf" \notin s.problem.rflags[row]
    THEN Ret([setRowState(s, row, {"BoundsModified"})
                 EXCEPT !.problem = modifyLeftHandSide(@, row, TRUE, 0),
                        !.stats.nsidechgs = @ + 1],
             "kContinue")
    ELSE Ret(s, "kContinue")

applyRhsInf(s, row) ==
    IF "RhsInf" \notin s.problem.rflags[row]
    THEN Ret([setRowState(s, row, {"BoundsModified"})
                 EXCEPT !.problem = modifyRightHandSide(@, row, TRUE, 0),
                        !.stats.nsidechgs = @ + 1],
             "kContinue")
    ELSE Ret(s, "kContinue")

applyRedundant(s, row) ==
    IF "Redundant" \notin s.problem.rflags[row]
    THEN Ret(markRowRedundant(setRowState(s, row, {"BoundsModified"}), row),
             "kContinue")
    ELSE Ret(s, "kContinue")

\* the loop of SPARSIFY over its candidate records (row, NONE, scale)
RECURSIVE sparsifyCandidates(_, _, _, _)
sparsifyCandidates(acc, eqrow, eqrhs, cands) ==
    LET candrow == Head(cands).row
        scale == Head(cands).newval
        sides(fl) == IF eqrhs # 0
                     THEN (IF "LhsInf" \notin fl THEN 1 ELSE 0)
                          + (IF "RhsInf" \notin fl THEN 1 ELSE 0)
                     ELSE 0
        counted(r) ==
            IF r.canceled # 0
            THEN [s |-> [setRowState(r.s, candrow, {"Modified"})
                            EXCEPT !.stats.nsidechgs =
                                @ + sides(r.s.problem.rflags[candrow])],
                  ncancel |-> acc.ncancel + r.canceled,
                  ncanceledrows |-> acc.ncanceledrows + 1]
            ELSE [acc EXCEPT !.s = r.s]
    IN IF cands = <<>> THEN acc
       ELSE sparsifyCandidates(
                counted(sparsify([acc.s EXCEPT !.valid = @ /\ candrow # eqrow],
                                 eqrow, scale, candrow)),
                eqrow, eqrhs, Tail(cands))

applySparsify(s, reduction, cands) ==
    LET p == s.problem
        eqrow == reduction.row
        eqrowcols == RowCols(p, eqrow)
        eqlen == Len(eqrowcols)
        finish(acc) ==
            IF acc.ncancel # 0
            THEN Ret(setColStates(
                         [acc.s EXCEPT !.stats.ncoefchgs =
                                           @ + eqlen * acc.ncanceledrows],
                         eqrowcols, {"Modified"}),
                     "kContinue")
            ELSE Ret(acc.s, "kContinue")
    IN finish(sparsifyCandidates(
                  [s |-> [s EXCEPT !.valid = @ /\ s.update.matrix_buffer = <<>>],
                   ncancel |-> 0, ncanceledrows |-> 0],
                  eqrow, p.rhs[eqrow], cands))

\* how many records the record at position i of tx takes
RecordSpan(tx, i) ==
    IF tx[i].row < 0 /\ tx[i].row = ColReduction.REPLACE THEN 2
    ELSE IF tx[i].row >= 0 /\ tx[i].col = RowReduction.SPARSIFY
    THEN 1 + tx[i].newval
    ELSE 1

\* a record of the default case with a weak lock taken for a strong one
applyDefaultLocks(s, reduction) ==
    IF reduction.row < 0 /\ reduction.row = ColReduction.LOCKED
    THEN Ret(setColState(s, reduction.col, {"Locked"}), "kContinue")
    ELSE IF reduction.col < 0 /\ reduction.col = RowReduction.LOCKED
    THEN Ret(setRowState(s, reduction.row, {"Locked"}), "kContinue")
    ELSE Ret(s, "kContinue")

\* the records the two switches have no case for (LOCKED, BOUNDS_LOCKED):
\* default: break
applyDefault(s, reduction) == Ret(s, "kContinue")

applyReduction(s, tx, i) ==
    LET reduction == tx[i]
    IN IF reduction.row >= 0 /\ reduction.col >= 0
       THEN applyCoefficient(s, reduction)
       ELSE IF reduction.row < 0
       THEN CASE reduction.row = ColReduction.NONE -> Ret(Invalid(s), "kContinue")
              [] reduction.row = ColReduction.LOCKED_STRONG ->
                     Ret(setColState(s, reduction.col, {"Locked"}), "kContinue")
              [] reduction.row = ColReduction.OBJECTIVE -> applyObjective(s, reduction)
              [] reduction.row = ColReduction.FIXED ->
                     abortIfInfeasible(fixCol(s, reduction.col, reduction.newval))
              [] reduction.row = ColReduction.FIXED_INFINITY ->
                     abortIfInfeasible(fixColInfinity(s, reduction.col, reduction.newval))
              [] reduction.row = ColReduction.LOWER_BOUND ->
                     abortIfInfeasible(changeLB(s, reduction.col, reduction.newval))
              [] reduction.row = ColReduction.UPPER_BOUND ->
                     abortIfInfeasible(changeUB(s, reduction.col, reduction.newval))
              [] reduction.row = ColReduction.IMPL_INT -> applyImplInt(s, reduction.col)
              [] reduction.row = ColReduction.SUBSTITUTE -> applySubstitute(s, reduction)
              [] reduction.row = ColReduction.SUBSTITUTE_OBJ ->
                     applySubstituteObj(s, reduction)
              [] reduction.row = ColReduction.PARALLEL -> applyParallel(s, reduction)
              [] reduction.row = ColReduction.REPLACE ->
                     IF i + 1 <= Len(tx) THEN applyReplace(s, reduction, tx[i + 1])
                     ELSE Ret(Invalid(s), "kContinue")
              [] OTHER -> applyDefault(s, reduction)
       ELSE CASE reduction.col = RowReduction.NONE -> Ret(Invalid(s), "kContinue")
              [] reduction.col = RowReduction.LOCKED_STRONG ->
                     Ret(setRowState(s, reduction.row, {"Locked"}), "kContinue")
              [] reduction.col = RowReduction.LHS -> applyLhs(s, reduction)
              [] reduction.col = RowReduction.RHS -> applyRhs(s, reduction)
              [] reduction.col = RowReduction.LHS_INF -> applyLhsInf(s, reduction.row)
              [] reduction.col = RowReduction.RHS_INF -> applyRhsInf(s, reduction.row)
              [] reduction.col = RowReduction.REDUNDANT ->
                     applyRedundant(s, reduction.row)
              [] reduction.col = RowReduction.SPARSIFY ->
                     IF i + reduction.newval <= Len(tx)
                     THEN applySparsify(s, reduction,
                              SubSeq(tx, i + 1, i + reduction.newval))
                     ELSE Ret(Invalid(s), "kContinue")
              [] OTHER -> applyDefault(s, reduction)

\* the loop over the records, from position i on
RECURSIVE applyRecords(_, _, _)
applyRecords(s, tx, i) ==
    LET continue(r) == IF r.status = "kContinue"
                       THEN applyRecords(r.s, tx, i + RecordSpan(tx, i))
                       ELSE r
    IN IF i > Len(tx) THEN Ret(s, "kApplied")
       ELSE continue(applyReduction(s, tx, i))

\* applyTransaction without its conflict check
applyTransactionUnchecked(s, tx) == applyRecords(s, tx, 1)

\* a loop that tests each record against the flags the records before it
\* have left
RECURSIVE applyRecordsChecked(_, _, _)
applyRecordsChecked(s, tx, i) ==
    LET conflictType == checkReductionConflict(s, tx[i])
        continue(r) == IF r.status = "kContinue"
                       THEN applyRecordsChecked(r.s, tx, i + RecordSpan(tx, i))
                       ELSE r
    IN IF i > Len(tx) THEN Ret(s, "kApplied")
       ELSE IF conflictType = "kConflict" THEN Ret(s, "kRejected")
       ELSE IF conflictType = "kPostpone" THEN Ret(s, "kPostponed")
       ELSE continue(applyReduction(s, tx, i))

applyTransactionInterleaved(s, tx) == applyRecordsChecked(s, tx, 1)

applyTransaction(s, tx) ==
    LET conflictType == checkTransactionConflicts(s, tx)
    IN IF conflictType = "kConflict" THEN Ret(s, "kRejected")
       ELSE IF conflictType = "kPostpone" THEN Ret(s, "kPostponed")
       ELSE applyRecords(s, tx, 1)

\* ------------------------------------------------------------------------
\* Round bookkeeping: active counts, compress, clearStates
\* ------------------------------------------------------------------------

getNActiveRows(s) ==
    s.problem.nrows - s.stats.ndeletedrows + s.update.lastcompress_ndelrows

getNActiveCols(s) ==
    s.problem.ncols - s.stats.ndeletedcols + s.update.lastcompress_ndelcols

\* setPostponeSubstitutions that never lowers the flag
setPostponeSubstitutionsRaised(s, value) ==
    [s EXCEPT !.update.postponeSubstitutions = TRUE]

setPostponeSubstitutions(s, value) ==
    [s EXCEPT !.update.postponeSubstitutions = value]

clearChangeInfo(s) ==
    [s EXCEPT !.update.changed_activities = <<>>,
              !.update.firstNewSingletonCol = Len(s.update.singletonColumns)]

\* compress_index_vector: entries of dropped indices leave, the others are
\* renumbered; mapping[i] = -1 for a dropped index
RECURSIVE compress_index_vector(_, _)
compress_index_vector(mapping, vec) ==
    IF vec = <<>> THEN <<>>
    ELSE IF Len(vec) = 1
    THEN (IF mapping[vec[1]] # -1 THEN <<mapping[vec[1]]>> ELSE <<>>)
    ELSE LET half == Len(vec) \div 2
         IN compress_index_vector(mapping, SubSeq(vec, 1, half))
              \o compress_index_vector(mapping, SubSeq(vec, half + 1, Len(vec)))

\* old index -> new index of the kept indices, -1 for the others
CompressMapping(n, kept) ==
    [i \in 0..(n - 1) |->
        IF i \in kept THEN Cardinality({j \in kept : j < i}) ELSE -1]

\* Problem::compress: rows and columns that left the storage (size -1) are
\* dropped and the remaining ones renumbered in order
ProblemCompress(p, rowmap, colmap) ==
    LET keptrows == SortedSeq({r \in 0..(p.nrows - 1) : rowmap[r] # -1})
        keptcols == SortedSeq({c \in 0..(p.ncols - 1) : colmap[c] # -1})
        nr == Len(keptrows)
        nc == Len(keptcols)
        onrows(v) == [r \in 0..(nr - 1) |-> v[keptrows[r + 1]]]
        oncols(v) == [c \in 0..(nc - 1) |-> v[keptcols[c + 1]]]
    IN [p EXCEPT !.nrows = nr, !.ncols = nc,
                 !.lbs = oncols(p.lbs), !.ubs = oncols(p.ubs),
                 !.cflags = oncols(p.cflags), !.obj = oncols(p.obj),
                 !.colsize = oncols(p.colsize), !.locks = oncols(p.locks),
                 !.lhs = onrows(p.lhs), !.rhs = onrows(p.rhs),
                 !.rflags = onrows(p.rflags), !.rowsize = onrows(p.rowsize),
                 !.activities = onrows(p.activities),
                 !.coef = [r \in 0..(nr - 1) |-> [c \in 0..(nc - 1) |->
                              p.coef[keptrows[r + 1]][keptcols[c + 1]]]]]

\* Problem::compress returns the mappings old index -> new index of the
\* rows and of the columns
CompressRowMap(p) ==
    CompressMapping(p.nrows, {r \in 0..(p.nrows - 1) : p.rowsize[r] # -1})

CompressColMap(p) ==
    CompressMapping(p.ncols, {c \in 0..(p.ncols - 1) : p.colsize[c] # -1})

\* compress up to tbb::parallel_invoke: the problem is compressed, the
\* worklists of flush and the dirty lists are asserted empty, the state
\* vectors are resized
compressBegin(s) ==
    LET p == s.problem
        u == s.update
        q == ProblemCompress(p, CompressRowMap(p), CompressColMap(p))
    IN [s EXCEPT
          !.problem = q,
          !.valid = @ /\ u.redundant_rows = <<>> /\ u.deleted_cols = <<>>
                      /\ u.dirty_col_states = <<>> /\ u.dirty_row_states = <<>>
                      /\ u.matrix_buffer = <<>>,
          !.update.row_state = [r \in 0..(q.nrows - 1) |-> u.row_state[r]],
          !.update.col_state = [c \in 0..(q.ncols - 1) |-> u.col_state[c]]]

\* the three statements of the task of singletonColumns
singletonColumnsNumNew(s) ==
    Len(s.update.singletonColumns) - s.update.firstNewSingletonCol

singletonColumnsCompress(s, colmap) ==
    [s EXCEPT !.update.singletonColumns = compress_index_vector(colmap, @)]

singletonColumnsSplit(s, numNewSingletonCols) ==
    [s EXCEPT !.update.firstNewSingletonCol =
                  Max(0, Len(s.update.singletonColumns) - numNewSingletonCols)]

\* PresolveMethod::compress: the observer renumbers the rows and columns it
\* holds
ObserverCompress(o, rowmap, colmap) ==
    [rows |-> compress_index_vector(rowmap, o.rows),
     cols |-> compress_index_vector(colmap, o.cols)]

\* PostsolveStorage::compress: the trail takes the event
PostsolveCompress(trail, rowmap, colmap, full) ==
    Append(trail, [type |-> "kCompress", rowmap |-> rowmap, colmap |-> colmap,
                   full |-> full])

\* the tasks handed to tbb::parallel_invoke, named after what they write
CompressTasks ==
    <<"random_row_perm", "random_col_perm", "postsolve", "changed_activities",
      "singletonRows", "singletonColumns", "emptyColumns", "compress_observers">>

\* the tasks with the task of emptyColumns moving the split of
\* singletonColumns as well
compressTaskSharedSplit(s, task, rowmap, colmap, full) ==
    CASE task = "random_row_perm" ->
           [s EXCEPT !.update.random_row_perm = compress_index_vector(rowmap, @)]
      [] task = "random_col_perm" ->
           [s EXCEPT !.update.random_col_perm = compress_index_vector(colmap, @)]
      [] task = "postsolve" ->
           [s EXCEPT !.postsolve = PostsolveCompress(@, rowmap, colmap, full)]
      [] task = "changed_activities" ->
           [s EXCEPT !.update.changed_activities = compress_index_vector(rowmap, @)]
      [] task = "singletonRows" ->
           [s EXCEPT !.update.singletonRows = compress_index_vector(rowmap, @)]
      [] task = "singletonColumns" ->
           singletonColumnsSplit(singletonColumnsCompress(s, colmap),
                                 singletonColumnsNumNew(s))
      [] task = "emptyColumns" ->
           [s EXCEPT !.update.emptyColumns = compress_index_vector(colmap, @),
                     !.update.firstNewSingletonCol =
                         Len(s.update.singletonColumns)]
      [] task = "compress_observers" ->
           [s EXCEPT !.update.compress_observers =
               [i \in DOMAIN @ |-> ObserverCompress(@[i], rowmap, colmap)]]

\* one task of tbb::parallel_invoke, run from its first statement to its last
compressTask(s, task, rowmap, colmap, full) ==
    CASE task = "random_row_perm" ->
           [s EXCEPT !.update.random_row_perm = compress_index_vector(rowmap, @)]
      [] task = "random_col_perm" ->
           [s EXCEPT !.update.random_col_perm = compress_index_vector(colmap, @)]
      [] task = "postsolve" ->
           [s EXCEPT !.postsolve = PostsolveCompress(@, rowmap, colmap, full)]
      [] task = "changed_activities" ->
           [s EXCEPT !.update.changed_activities = compress_index_vector(rowmap, @)]
      [] task = "singletonRows" ->
           [s EXCEPT !.update.singletonRows = compress_index_vector(rowmap, @)]
      [] task = "singletonColumns" ->
           singletonColumnsSplit(singletonColumnsCompress(s, colmap),
                                 singletonColumnsNumNew(s))
      [] task = "emptyColumns" ->
           [s EXCEPT !.update.emptyColumns = compress_index_vector(colmap, @)]
      [] task = "compress_observers" ->
           [s EXCEPT !.update.compress_observers =
               [i \in DOMAIN @ |-> ObserverCompress(@[i], rowmap, colmap)]]

\* the tasks run one after the other, in the order of the list
RECURSIVE compressTasksFrom(_, _, _, _, _)
compressTasksFrom(s, tasks, rowmap, colmap, full) ==
    IF tasks = <<>> THEN s
    ELSE compressTasksFrom(compressTask(s, Head(tasks), rowmap, colmap, full),
                           Tail(tasks), rowmap, colmap, full)

\* compress after tbb::parallel_invoke
compressEnd(s) ==
    [s EXCEPT !.update.lastcompress_ndelrows = s.stats.ndeletedrows,
              !.update.lastcompress_ndelcols = s.stats.ndeletedcols]

compress(s, full) ==
    IF /\ s.problem.ncols = getNActiveCols(s)
       /\ s.problem.nrows = getNActiveRows(s)
       /\ ~full
    THEN s
    ELSE compressEnd(compressTasksFrom(compressBegin(s), CompressTasks,
                                        CompressRowMap(s.problem),
                                        CompressColMap(s.problem), full))

\* clearStates compresses only problems with more than this many rows or columns
CompressMinDim == 100

RECURSIVE ResetStates(_, _)
ResetStates(state, dirty) ==
    IF dirty = <<>> THEN state
    ELSE ResetStates([state EXCEPT ![Head(dirty)] = {}], Tail(dirty))

\* clearStates compressing as soon as one dimension is large and the live
\* fraction of the rows or of the columns is low
clearStatesEitherFraction(s) ==
    LET u == s.update
        rows == ResetStates(u.row_state, u.dirty_row_states)
        cols == ResetStates(u.col_state, u.dirty_col_states)
        s1 == [s EXCEPT !.update.row_state = rows,
                        !.update.dirty_row_states = <<>>,
                        !.update.col_state = cols,
                        !.update.dirty_col_states = <<>>,
                        !.valid = @ /\ (\A r \in DOMAIN rows : rows[r] = {})
                                    /\ (\A c \in DOMAIN cols : cols[c] = {})]
        fac == s.options.compressfac
        p == s.problem
    IN IF /\ fac.num # 0
          /\ (p.ncols > CompressMinDim \/ p.nrows > CompressMinDim)
          /\ \/ getNActiveCols(s1) * fac.den < p.ncols * fac.num
             \/ getNActiveRows(s1) * fac.den < p.nrows * fac.num
       THEN compress(s1, FALSE)
       ELSE s1

\* presolveOptions.compressfac is the fraction compressfac.num / compressfac.den
clearStates(s) ==
    LET u == s.update
        rows == ResetStates(u.row_state, u.dirty_row_states)
        cols == ResetStates(u.col_state, u.dirty_col_states)
        s1 == [s EXCEPT !.update.row_state = rows,
                        !.update.dirty_row_states = <<>>,
                        !.update.col_state = cols,
                        !.update.dirty_col_states = <<>>,
                        !.valid = @ /\ (\A r \in DOMAIN rows : rows[r] = {})
                                    /\ (\A c \in DOMAIN cols : cols[c] = {})]
        fac == s.options.compressfac
        p == s.problem
    IN IF /\ fac.num # 0
          /\ \/ /\ p.ncols > CompressMinDim
                /\ getNActiveCols(s1) * fac.den < p.ncols * fac.num
             \/ /\ p.nrows > CompressMinDim
                /\ getNActiveRows(s1) * fac.den < p.nrows * fac.num
       THEN compress(s1, FALSE)
       ELSE s1

\* ------------------------------------------------------------------------
\* Problem instances.  Bounds and sides are on the grid (4 stands for 1.0);
\* coefficients, objective and scales are plain integers.
\* ------------------------------------------------------------------------

\* a Problem as the builder hands it over: sizes, counts, locks and
\* activities follow from the primary data
MkProblem(lbs, ubs, cflags, obj, lhs, rhs, rflags, coef) ==
    LET nc == Len(lbs)
        nr == Len(lhs)
        cf == [r \in 0..(nr - 1) |-> Vec(coef[r + 1])]
        p0 == [ncols |-> nc, nrows |-> nr,
               lbs |-> Vec(lbs), ubs |-> Vec(ubs), cflags |-> Vec(cflags),
               obj |-> Vec(obj), offset |-> 0,
               lhs |-> Vec(lhs), rhs |-> Vec(rhs), rflags |-> Vec(rflags),
               coef |-> cf,
               rowsize |-> [r \in 0..(nr - 1) |-> NnzRow(cf, nc, r)],
               colsize |-> [c \in 0..(nc - 1) |-> NnzCol(cf, nr, c)],
               activities |-> [r \in 0..(nr - 1) |->
                   [min |-> 0, max |-> 0, ninfmin |-> 0, ninfmax |-> 0,
                    lastchange |-> -1]],
               locks |-> [c \in 0..(nc - 1) |-> [down |-> 0, up |-> 0]],
               nintcols |-> Cardinality({c \in 1..nc : "Integral" \in cflags[c]}),
               ncontcols |-> Cardinality({c \in 1..nc : "Integral" \notin cflags[c]})]
    IN recomputeAllActivities(recomputeLocks(p0))

\* std::shuffle with the generator seeded by presolveOptions.randomseed
\* leaves one permutation of 0..n-1, the same in every run: the reversed
\* order stands for it
Shuffled(n) == [i \in 1..n |-> n - i]

\* ProblemUpdate::ProblemUpdate over a problem with nr rows and nc columns
NewUpdate(nr, nc) ==
    [row_state |-> [r \in 0..(nr - 1) |-> {}],
     col_state |-> [c \in 0..(nc - 1) |-> {}],
     dirty_row_states |-> <<>>, dirty_col_states |-> <<>>,
     deleted_cols |-> <<>>, redundant_rows |-> <<>>,
     changed_activities |-> <<>>, singletonRows |-> <<>>,
     singletonColumns |-> <<>>, emptyColumns |-> <<>>,
     firstNewSingletonCol |-> 0, matrix_buffer |-> <<>>,
     postponeSubstitutions |-> TRUE,
     lastcompress_ndelcols |-> 0, lastcompress_ndelrows |-> 0,
     random_row_perm |-> Shuffled(nr), random_col_perm |-> Shuffled(nc),
     compress_observers |-> <<>>]

NewStatistics ==
    [nboundchgs |-> 0, ncoefchgs |-> 0, nsidechgs |-> 0,
     ndeletedcols |-> 0, ndeletedrows |-> 0, nrounds |-> 0]

\* instance "A": an equation, a <= row and a >= row over an integral, a
\* bounded and a half-bounded column; substitutions may not add entries
ProblemA ==
    MkProblem(<<0, 0, 0>>, <<8, 8, 0>>,
              <<{"Integral"}, {}, {"UbInf"}>>, <<1, 2, 0>>,
              <<8, 0, -8>>, <<8, 12, 0>>,
              <<{"Equation"}, {"LhsInf"}, {"RhsInf"}>>,
              <<<<1, 1, 1>>, <<1, 2, 0>>, <<0, 1, -1>>>>)

OptionsA ==
    [dualreds |-> 0, maxfillinpersubstitution |-> 10, maxshiftperrow |-> 0,
     compressfac |-> [num |-> 1, den |-> 2]]

CatalogA ==
    << <<Reduction(ColReduction.LOCKED_STRONG, 0, 0)>>,
       <<Reduction(ColReduction.LOWER_BOUND, 0, 4),
         Reduction(ColReduction.FIXED, 1, 12),
         Reduction(ColReduction.UPPER_BOUND, 2, 8)>>,
       <<Reduction(ColReduction.LOWER_BOUND, 0, 4),
         Reduction(ColReduction.SUBSTITUTE, 2, 0)>>,
       <<Reduction(1, RowReduction.LOCKED, 0),
         Reduction(1, RowReduction.RHS, 8)>>,
       <<Reduction(1, 0, 2)>>,
       <<Reduction(1, RowReduction.LOCKED_STRONG, 0)>>,
       <<Reduction(ColReduction.OBJECTIVE, 0, 2)>>,
       <<Reduction(ColReduction.BOUNDS_LOCKED, 0, 0),
         Reduction(ColReduction.UPPER_BOUND, 0, 4)>>,
       <<Reduction(2, RowReduction.REDUNDANT, 0)>>,
       <<Reduction(1, RowReduction.LHS, 12)>>,
       <<Reduction(ColReduction.FIXED, 1, 4)>>,
       <<Reduction(ColReduction.LOWER_BOUND, 2, 64)>> >>

\* instance "B": two parallel columns, an equality row the builder has not
\* flagged yet, dual reductions on, generous substitution limits
ProblemB ==
    MkProblem(<<0, 0, -8>>, <<4, 8, 8>>,
              <<{}, {}, {}>>, <<1, 1, 0>>,
              <<0, 0, 4>>, <<16, 0, 0>>,
              <<{"LhsInf"}, {}, {"RhsInf"}>>,
              <<<<1, 1, 1>>, <<2, 2, -1>>, <<1, 1, 0>>>>)

OptionsB ==
    [dualreds |-> 2, maxfillinpersubstitution |-> 10, maxshiftperrow |-> 10,
     compressfac |-> [num |-> 1, den |-> 2]]

CatalogB ==
    << <<Reduction(ColReduction.PARALLEL, 0, 1)>>,
       <<Reduction(ColReduction.LOCKED_STRONG, 2, 0),
         Reduction(ColReduction.PARALLEL, 0, 1)>>,
       <<Reduction(1, RowReduction.SPARSIFY, 1),
         Reduction(0, RowReduction.NONE, 1)>>,
       <<Reduction(ColReduction.REPLACE, 2, 2),
         Reduction(ColReduction.NONE, 0, 0)>>,
       <<Reduction(1, RowReduction.LOCKED, 0),
         Reduction(ColReduction.SUBSTITUTE, 2, 1)>>,
       <<Reduction(0, RowReduction.RHS_INF, 0)>>,
       <<Reduction(2, RowReduction.LHS_INF, 0)>>,
       <<Reduction(ColReduction.FIXED, 0, 4)>>,
       <<Reduction(ColReduction.LOCKED, 0, 0),
         Reduction(ColReduction.LOWER_BOUND, 1, 4)>>,
       <<Reduction(ColReduction.IMPL_INT, 1, 0)>>,
       <<Reduction(2, RowReduction.LOCKED_STRONG, 0)>>,
       <<Reduction(2, 1, 0)>> >>

\* instance "C": an infeasible problem: the bounds cannot satisfy the first
\* row; the second row is an equality the builder has not flagged
ProblemC ==
    MkProblem(<<0, 0, 0>>, <<8, 4, 4>>,
              <<{}, {}, {}>>, <<1, 1, 1>>,
              <<12, 8>>, <<0, 8>>,
              <<{"RhsInf"}, {}>>,
              <<<<0, 1, 1>>, <<1, 1, 0>>>>)

CatalogC ==
    << <<Reduction(ColReduction.LOCKED_STRONG, 0, 0)>> >>

\* instance "D": two rows that each hold a singleton column
ProblemD ==
    MkProblem(<<0, 0, 0>>, <<8, 8, 4>>,
              <<{}, {}, {}>>, <<1, 0, -1>>,
              <<0, 4>>, <<8, 0>>,
              <<{"LhsInf"}, {"RhsInf"}>>,
              <<<<1, 1, 0>>, <<0, 1, 1>>>>)

CatalogD ==
    << <<Reduction(0, RowReduction.REDUNDANT, 0)>>,
       <<Reduction(1, RowReduction.REDUNDANT, 0)>>,
       <<Reduction(ColReduction.FIXED, 0, 4)>>,
       <<Reduction(1, 0, 1)>>,
       <<Reduction(0, 1, 0)>> >>

\* instance D with a third row that has no entries: 0 <= 1.0
ProblemE ==
    MkProblem(<<0, 0, 0>>, <<8, 8, 4>>,
              <<{}, {}, {}>>, <<1, 0, -1>>,
              <<0, 4, 0>>, <<8, 0, 4>>,
              <<{"LhsInf"}, {"RhsInf"}, {"LhsInf"}>>,
              <<<<1, 1, 0>>, <<0, 1, 1>>, <<0, 0, 0>>>>)

\* instance "K": the trivial presolve deletes the fixed column x0 and the
\* singleton row 0 and leaves a singleton row, two singleton columns and
\* the empty column x4 on the worklists
ProblemK ==
    MkProblem(<<4, 0, 0, 0, 0>>, <<4, 8, 8, 8, 8>>,
              <<{}, {}, {}, {}, {}>>, <<1, 1, 0, 1, 1>>,
              <<0, 0, 8>>, <<8, 12, 0>>,
              <<{"LhsInf"}, {"LhsInf"}, {"RhsInf"}>>,
              <<<<0, 2, 0, 0, 0>>, <<0, 1, 1, 1, 0>>, <<1, 0, 1, 0, 0>>>>)

CatalogK ==
    << <<Reduction(ColReduction.FIXED, 2, 4)>>,
       <<Reduction(ColReduction.UPPER_BOUND, 1, 4)>> >>

Instances == {"A", "B", "C", "D"}

InstanceProblem(i) ==
    IF i = "A" THEN ProblemA
    ELSE IF i = "B" THEN ProblemB
    ELSE IF i = "C" THEN ProblemC
    ELSE IF i \in {"D", "L"} THEN ProblemD
    ELSE IF i = "K" THEN ProblemK ELSE ProblemE

\* the options of the instances G: dual reductions for columns with a
\* nonzero objective coefficient only
OptionsG == [OptionsB EXCEPT !.dualreds = 1]

\* the options of the instances Z: compressfac = 0
OptionsZ == [OptionsA EXCEPT !.compressfac.num = 0]

\* the transactions offered to the instances W and Z: each of them deletes
\* one row or one column
CatalogW ==
    << <<Reduction(0, RowReduction.REDUNDANT, 0)>>,
       <<Reduction(ColReduction.FIXED, 2, 0)>>,
       <<Reduction(1, RowReduction.REDUNDANT, 0)>> >>

\* the options of the instances W: compressfac = 0.999
OptionsW == [OptionsA EXCEPT !.compressfac = [num |-> 999, den |-> 1000]]

InstanceOptions(i) ==
    IF i \in {"B", "F", "U"} THEN OptionsB
    ELSE IF i = "G" THEN OptionsG
    ELSE IF i = "Z" THEN OptionsZ
    ELSE IF i = "W" THEN OptionsW ELSE OptionsA

\* the transaction offered to the problems with two parallel columns
CatalogP ==
    << <<Reduction(ColReduction.PARALLEL, 0, 1)>> >>

\* a presolver declares the first row redundant
CatalogU == << <<Reduction(0, RowReduction.REDUNDANT, 0)>> >>

\* the transactions offered to the instance L (the problem of instance D):
\* strong locks, weak locks and modifications of the rows and columns they
\* name
CatalogL ==
    << <<Reduction(0, RowReduction.LOCKED_STRONG, 0)>>,
       <<Reduction(0, RowReduction.REDUNDANT, 0)>>,
       <<Reduction(ColReduction.LOCKED_STRONG, 0, 0)>>,
       <<Reduction(ColReduction.OBJECTIVE, 0, 2)>>,
       <<Reduction(0, 0, 2)>>,
       <<Reduction(0, RowReduction.LOCKED_STRONG, 0),
         Reduction(0, RowReduction.RHS, 12)>>,
       <<Reduction(1, 2, 2),
         Reduction(1, RowReduction.LOCKED_STRONG, 0)>>,
       <<Reduction(ColReduction.LOCKED, 1, 0)>>,
       <<Reduction(1, RowReduction.LOCKED, 0)>>,
       <<Reduction(ColReduction.BOUNDS_LOCKED, 1, 0)>>,
       <<Reduction(ColReduction.LOCKED, 1, 0),
         Reduction(1, RowReduction.LOCKED, 0),
         Reduction(ColReduction.BOUNDS_LOCKED, 1, 0)>>,
       <<Reduction(ColReduction.OBJECTIVE, 1, 4)>>,
       <<Reduction(1, RowReduction.LHS, 2)>>,
       <<Reduction(ColReduction.UPPER_BOUND, 1, 4)>>,
       <<Reduction(ColReduction.SUBSTITUTE, 2, 1),
         Reduction(0, RowReduction.RHS, 4)>>,
       <<Reduction(0, RowReduction.RHS, 4),
         Reduction(ColReduction.SUBSTITUTE, 2, 1)>>,
       <<Reduction(ColReduction.LOCKED_STRONG, 0, 0),
         Reduction(ColReduction.OBJECTIVE, 0, 2)>> >>

Catalog(i) ==
    IF i = "A" THEN CatalogA
    ELSE IF i = "B" THEN CatalogB
    ELSE IF i = "C" THEN CatalogC
    ELSE IF i \in {"D", "E"} THEN CatalogD
    ELSE IF i = "K" THEN CatalogK
    ELSE IF i \in {"W", "Z"} THEN CatalogW
    ELSE IF i = "U" THEN CatalogU
    ELSE IF i = "L" THEN CatalogL ELSE CatalogP

\* ------------------------------------------------------------------------
\* The state machine: one ProblemUpdate over one instance, driven call by call
\* ------------------------------------------------------------------------

VARIABLES problem, update, stats, postsolve, inst, phase, last, ncalls

vars == <<problem, update, stats, postsolve, inst, phase, last, ncalls>>

\* the program state proper
core == <<problem, update, stats, postsolve>>

\* calls the driver makes after the trivial presolve
MaxCalls == 3

Cur ==
    [problem |-> problem, update |-> update, stats |-> stats,
     postsolve |-> postsolve, options |-> InstanceOptions(inst),
     trace |-> <<>>, valid |-> TRUE]

Install(s) ==
    /\ problem' = s.problem
    /\ update' = s.update
    /\ stats' = s.stats
    /\ postsolve' = s.postsolve

\* what the conflict check reads of the update
ConflictView(u) ==
    [row_state |-> u.row_state, col_state |-> u.col_state,
     postponeSubstitutions |-> u.postponeSubstitutions]

\* the record of a call: the operation, its argument, what the conflict
\* check could see before it, its result and the statuses its mutators
\* returned
Called(op, arg, before, result, trace) ==
    [op |-> op, arg |-> arg, before |-> before, result |-> result,
     trace |-> trace]

Init ==
    /\ inst \in Instances
    /\ problem = InstanceProblem(inst)
    /\ update = NewUpdate(problem.nrows, problem.ncols)
    /\ stats = NewStatistics
    /\ postsolve = <<>>
    /\ phase = "constructed"
    /\ last = Called("ProblemUpdate", 0, ConflictView(update), "none", <<>>)
    /\ ncalls = 0

\* the effect of a call that returned r = [s, status]
Returned(op, arg, r) ==
    /\ r.s.valid
    /\ Install(r.s)
    /\ phase' = IF Stops(r.status) THEN "stopped" ELSE "running"
    /\ last' = Called(op, arg, ConflictView(update), r.status, r.s.trace)

TrivialPresolve ==
    /\ phase = "constructed"
    /\ Returned("trivialPresolve", 0, trivialPresolve(Cur))
    /\ UNCHANGED <<inst, ncalls>>

ApplyTransaction ==
    /\ phase = "running"
    /\ ncalls < MaxCalls
    /\ \E i \in DOMAIN Catalog(inst) :
          Returned("applyTransaction", i, applyTransaction(Cur, Catalog(inst)[i]))
    /\ ncalls' = ncalls + 1
    /\ UNCHANGED inst

Flush ==
    /\ phase = "running"
    /\ ncalls < MaxCalls
    /\ Returned("flush", 0, flush(Cur))
    /\ ncalls' = ncalls + 1
    /\ UNCHANGED inst

ClearStates ==
    /\ phase = "running"
    /\ ncalls < MaxCalls
    /\ Returned("clearStates", 0, Ret(clearStates(Cur), "none"))
    /\ ncalls' = ncalls + 1
    /\ UNCHANGED inst

ClearChangeInfo ==
    /\ phase = "running"
    /\ ncalls < MaxCalls
    /\ Returned("clearChangeInfo", 0, Ret(clearChangeInfo(Cur), "none"))
    /\ ncalls' = ncalls + 1
    /\ UNCHANGED inst

SetPostponeSubstitutions ==
    /\ phase = "running"
    /\ ncalls < MaxCalls
    /\ \E b \in BOOLEAN :
          Returned("setPostponeSubstitutions", IF b THEN 1 ELSE 0,
                   Ret(setPostponeSubstitutions(Cur, b), "none"))
    /\ ncalls' = ncalls + 1
    /\ UNCHANGED inst

Next ==
    \/ TrivialPresolve
    \/ ApplyTransaction
    \/ Flush
    \/ ClearStates
    \/ ClearChangeInfo
    \/ SetPostponeSubstitutions

Spec == Init /\ [][Next]_vars

\* ------------------------------------------------------------------------
\* Claims about applyTransaction
\* ------------------------------------------------------------------------

\* C1: whenever applyTransaction returns Rejected, the problem data, the
\* row and column states, the worklists, the matrix buffer, the statistics
\* and the postsolve trail are what they were before the call, also when
\* the rejection is raised in the apply phase after earlier records of the
\* transaction were processed
C1_RejectedLeavesStateUnchanged ==
    [][(last'.op = "applyTransaction" /\ last'.result = "kRejected")
          => UNCHANGED core]_vars

\* the columns a transaction asks to lock strongly
StrongLockedCols(tx) ==
    {tx[k].col : k \in {j \in DOMAIN tx : tx[j].row = ColReduction.LOCKED_STRONG}}

\* C2 as stated: when a transaction holding a LOCKED_STRONG record for a
\* column was Applied and the next transaction of the round holds a
\* LOCKED_STRONG record for the same column, the second returns Rejected
\* and leaves every piece of state unchanged
C2_SecondStrongLockRejected ==
    [][(/\ last.op = "applyTransaction"
        /\ last.result = "kApplied"
        /\ last'.op = "applyTransaction"
        /\ StrongLockedCols(Catalog(inst)[last.arg])
              \cap StrongLockedCols(Catalog(inst)[last'.arg]) # {})
          => (last'.result = "kRejected" /\ UNCHANGED core)]_vars

\* C2 amended: once a LOCKED_STRONG record has set Locked on a column in
\* the round, a transaction that consists of a LOCKED_STRONG record for
\* that column is Rejected only if the column carries Modified; otherwise
\* it returns Applied again; either way it leaves all state unchanged
C2_SecondStrongLockApplied ==
    [][\A c \in 0..(problem.ncols - 1) :
          (/\ last'.op = "applyTransaction"
           /\ Catalog(inst)[last'.arg]
                 = <<Reduction(ColReduction.LOCKED_STRONG, c, 0)>>
           /\ "Locked" \in update.col_state[c])
             => /\ last'.result = IF "Modified" \in update.col_state[c]
                                  THEN "kRejected" ELSE "kApplied"
                /\ UNCHANGED core]_vars

\* a LOCKED_STRONG transaction was presented for a column that was already
\* locked in the round and returned Applied
C2_SecondStrongLockSeen ==
    \E c \in 0..(problem.ncols - 1) :
        /\ last.op = "applyTransaction"
        /\ Catalog(inst)[last.arg] = <<Reduction(ColReduction.LOCKED_STRONG, c, 0)>>
        /\ "Locked" \in last.before.col_state[c]
        /\ last.result = "kApplied"

\* the verdict of the conflict check on the transaction of a recorded call,
\* from what the check could see before the call
ConflictSeen(c) ==
    checkTransactionConflicts([update |-> c.before], Catalog(inst)[c.arg])

\* C3: the apply phase runs only on NoConflict: when the conflict check
\* returns Conflict (Postpone), applyTransaction returns Rejected
\* (Postponed), no mutator is called and the problem, the states and
\* worklists, the matrix buffer, the counters and the postsolve trail stay
\* as they were
C3_ApplyOnlyOnNoConflict ==
    [][last'.op = "applyTransaction" =>
          LET conflictType ==
                  checkTransactionConflicts(Cur, Catalog(inst)[last'.arg])
          IN /\ conflictType = "kConflict" =>
                   /\ last'.result = "kRejected"
                   /\ last'.trace = <<>>
                   /\ UNCHANGED core
             /\ conflictType = "kPostpone" =>
                   /\ last'.result = "kPostponed"
                   /\ last'.trace = <<>>
                   /\ UNCHANGED core]_vars

\* a transaction of several records was turned down by the conflict check
C3_ConflictSeen ==
    /\ last.op = "applyTransaction"
    /\ Len(Catalog(inst)[last.arg]) > 1
    /\ ConflictSeen(last) = "kConflict"
    /\ last.result = "kRejected"

\* C4: the first mutator of the apply phase that returns Infeasible ends
\* applyTransaction with Infeasible at once: it is the last mutator called,
\* the outcome is that of the transaction cut off after the failing
\* record, and a transaction in which a mutator returned Infeasible is
\* never Applied
C4_FirstInfeasibleAborts ==
    [][last'.op = "applyTransaction" =>
          LET tx == Catalog(inst)[last'.arg]
              infeasibleAt ==
                  {k \in DOMAIN last'.trace : last'.trace[k] = "kInfeasible"}
              Prefix(k) == applyRecords(Cur, SubSeq(tx, 1, k), 1)
              SameOutcome(r) == /\ r.status = "kInfeasible"
                                /\ r.s.trace = last'.trace
                                /\ r.s.problem = problem'
                                /\ r.s.update = update'
                                /\ r.s.stats = stats'
                                /\ r.s.postsolve = postsolve'
          IN /\ infeasibleAt # {} =>
                   /\ last'.result = "kInfeasible"
                   /\ infeasibleAt = {Len(last'.trace)}
             /\ last'.result = "kInfeasible" =>
                   /\ infeasibleAt # {}
                   /\ \E k \in DOMAIN tx :
                         /\ SameOutcome(Prefix(k))
                         /\ \A j \in 1..(k - 1) :
                               Prefix(j).status # "kInfeasible"
             /\ last'.result = "kApplied" => infeasibleAt = {}]_vars

\* a transaction was ended by an Infeasible mutator called for a record
\* that is not its last, after an earlier mutator had succeeded
C4_InfeasibleSeen ==
    /\ last.op = "applyTransaction"
    /\ last.result = "kInfeasible"
    /\ Len(last.trace) > 1
    /\ Len(last.trace) < Len(Catalog(inst)[last.arg])
    /\ phase = "stopped"

\* ------------------------------------------------------------------------
\* Claims about the conflict check
\* ------------------------------------------------------------------------

Rows == 0..(problem.nrows - 1)

Cols == 0..(problem.ncols - 1)

\* the records that modify a coefficient, a side or an objective coefficient
IsModification(reduction) ==
    \/ reduction.row >= 0 /\ reduction.col >= 0
    \/ /\ reduction.row >= 0
       /\ reduction.col \in {RowReduction.LHS, RowReduction.LHS_INF,
                             RowReduction.RHS, RowReduction.RHS_INF}
    \/ reduction.row = ColReduction.OBJECTIVE

ModificationRecords ==
    {Reduction(r, c, 0) : r \in Rows, c \in Cols}
       \cup {Reduction(r, op, 0) : r \in Rows,
                op \in {RowReduction.LHS, RowReduction.LHS_INF,
                        RowReduction.RHS, RowReduction.RHS_INF}}
       \cup {Reduction(ColReduction.OBJECTIVE, c, 0) : c \in Cols}

\* the row or the column the record modifies carries Locked in view v
TargetLocked(v, reduction) ==
    IF reduction.row >= 0 /\ reduction.col >= 0
    THEN \/ "Locked" \in v.row_state[reduction.row]
         \/ "Locked" \in v.col_state[reduction.col]
    ELSE IF reduction.row < 0
    THEN "Locked" \in v.col_state[reduction.col]
    ELSE "Locked" \in v.row_state[reduction.row]

ColLockOps ==
    {ColReduction.LOCKED, ColReduction.LOCKED_STRONG, ColReduction.BOUNDS_LOCKED}

\* the bit a column lock request guards against
GuardedBit(colop) ==
    IF colop = ColReduction.BOUNDS_LOCKED THEN "BoundsModified" ELSE "Modified"

\* C6: in the conflict check Col.LOCKED and Col.LOCKED_STRONG conflict iff
\* the column carries Modified, Col.BOUNDS_LOCKED iff it carries
\* BoundsModified.  So a transaction that starts with such a request is
\* Rejected when the column carried the bit, and one that consists of the
\* request alone is Rejected only then
C6_ColumnLockConflictsIffModified ==
    /\ \A colop \in ColLockOps : \A c \in Cols :
          checkReductionConflict(Cur, Reduction(colop, c, 0))
             = IF GuardedBit(colop) \in update.col_state[c]
               THEN "kConflict" ELSE "kNoConflict"
    /\ (/\ last.op = "applyTransaction"
        /\ Catalog(inst)[last.arg][1].row \in ColLockOps)
          => LET tx == Catalog(inst)[last.arg]
                 guarded == GuardedBit(tx[1].row)
                                \in last.before.col_state[tx[1].col]
             IN /\ guarded => last.result = "kRejected"
                /\ (Len(tx) = 1 /\ last.result = "kRejected") => guarded

\* a transaction that starts with Col.BOUNDS_LOCKED was Rejected for a
\* column that carried BoundsModified but not Modified
C6_BoundsLockRejectedSeen ==
    /\ last.op = "applyTransaction"
    /\ Catalog(inst)[last.arg][1].row = ColReduction.BOUNDS_LOCKED
    /\ "BoundsModified" \in last.before.col_state[Catalog(inst)[last.arg][1].col]
    /\ "Modified" \notin last.before.col_state[Catalog(inst)[last.arg][1].col]
    /\ last.result = "kRejected"

RowLockOps == {RowReduction.LOCKED, RowReduction.LOCKED_STRONG}

\* what the apply phase can change of a row
RowData(p, r) ==
    [lhs |-> p.lhs[r], rhs |-> p.rhs[r], rflags |-> p.rflags[r],
     coef |-> p.coef[r]]

RowChanged(v, r) == Test(v.row_state[r], {"Modified", "BoundsModified"})

\* in every state the conflict check turns down a row lock request exactly
\* for the rows that carry Modified or BoundsModified, and a transaction
\* that starts with such a request for such a row was Rejected
RowLockConflictsIffChanged ==
    /\ \A rowop \in RowLockOps : \A r \in Rows :
          checkReductionConflict(Cur, Reduction(r, rowop, 0))
             = IF RowChanged(update, r) THEN "kConflict" ELSE "kNoConflict"
    /\ (/\ last.op = "applyTransaction"
        /\ Catalog(inst)[last.arg][1].row >= 0
        /\ Catalog(inst)[last.arg][1].col \in RowLockOps)
          => LET tx == Catalog(inst)[last.arg]
                 changed == RowChanged(last.before, tx[1].row)
             IN /\ changed => last.result = "kRejected"
                /\ (Len(tx) = 1 /\ last.result = "kRejected") => changed

\* a step of applyTransaction leaves Modified or BoundsModified on every
\* row whose sides, flags or coefficients it changes; buffered coefficient
\* changes count from the moment they are buffered
ChangedRowsAreMarked ==
    last'.op = "applyTransaction" =>
        \A r \in Rows :
            (\/ RowData(problem, r) # RowData(problem', r)
             \/ \E k \in DOMAIN update'.matrix_buffer :
                   /\ update'.matrix_buffer[k].row = r
                   /\ k > Len(update.matrix_buffer))
               => RowChanged(update', r)

\* C7: a Row.LOCKED or Row.LOCKED_STRONG record conflicts iff the row
\* carries Modified or BoundsModified; every change the apply phase makes
\* to a row (coefficient change, side change, REDUNDANT, substitution,
\* sparsify) sets one of the two bits on it, so a later lock request on a
\* changed row is rejected
C7_RowLockConflictsIffChanged ==
    []RowLockConflictsIffChanged /\ [][ChangedRowsAreMarked]_vars

\* a transaction that starts with a row lock request was Rejected for a
\* row whose side an earlier transaction of the round had changed
C7_ChangedRowLockRejectedSeen ==
    /\ last.op = "applyTransaction"
    /\ Catalog(inst)[last.arg][1].row >= 0
    /\ Catalog(inst)[last.arg][1].col \in RowLockOps
    /\ "BoundsModified" \in last.before.row_state[Catalog(inst)[last.arg][1].row]
    /\ "Modified" \notin last.before.row_state[Catalog(inst)[last.arg][1].row]
    /\ last.result = "kRejected"

\* ------------------------------------------------------------------------
\* Claims about postponed substitutions
\* ------------------------------------------------------------------------

\* the records the conflict check postpones
IsPostponable(reduction) ==
    \/ /\ reduction.row < 0
       /\ reduction.row \in {ColReduction.SUBSTITUTE, ColReduction.REPLACE}
    \/ /\ reduction.row >= 0
       /\ reduction.col = RowReduction.SPARSIFY

\* tx holds a postponable record and no record before the first of them
\* conflicts in view v
PostponableUnhindered(v, tx) ==
    \E k \in DOMAIN tx :
        /\ IsPostponable(tx[k])
        /\ \A j \in 1..(k - 1) :
              /\ ~IsPostponable(tx[j])
              /\ checkReductionConflict([update |-> v], tx[j]) # "kConflict"

\* after construction postponeSubstitutions is true and
\* setPostponeSubstitutions leaves the value it was given; while it is true
\* an unhindered transaction with a SUBSTITUTE, REPLACE or SPARSIFY record
\* is Postponed; while it is false no transaction is
PostponedWhileRaised ==
    /\ last.op = "ProblemUpdate" => update.postponeSubstitutions
    /\ last.op = "setPostponeSubstitutions" =>
          update.postponeSubstitutions = (last.arg = 1)
    /\ last.op = "applyTransaction" =>
          /\ (/\ last.before.postponeSubstitutions
              /\ PostponableUnhindered(last.before, Catalog(inst)[last.arg]))
                => last.result = "kPostponed"
          /\ ~last.before.postponeSubstitutions =>
                last.result \in {"kApplied", "kRejected", "kInfeasible"}

\* only setPostponeSubstitutions changes postponeSubstitutions
PostponeOnlySetByDriver ==
    update'.postponeSubstitutions # update.postponeSubstitutions =>
        last'.op = "setPostponeSubstitutions"

\* C8: postponeSubstitutions is true after construction; while it is true
\* a transaction with a Col.SUBSTITUTE, Col.REPLACE or Row.SPARSIFY record
\* and no conflicting record before it returns Postponed; from
\* setPostponeSubstitutions(false) on applyTransaction returns Applied,
\* Rejected or Infeasible, never Postponed
C8_PostponedOnlyWhileRaised ==
    []PostponedWhileRaised /\ [][PostponeOnlySetByDriver]_vars

\* with postponeSubstitutions lowered, a transaction with a SUBSTITUTE,
\* REPLACE or SPARSIFY record went through the apply phase
C8_LoweredSeen ==
    /\ last.op = "applyTransaction"
    /\ ~last.before.postponeSubstitutions
    /\ PostponableUnhindered(last.before, Catalog(inst)[last.arg])
    /\ last.result = "kApplied"

\* ------------------------------------------------------------------------
\* Claims about the problem's invariants
\* ------------------------------------------------------------------------

\* the Equation flag of every row that is not Redundant says whether the
\* row has two finite sides that are equal
EquationFlagsOk == \A r \in Rows : EquationFlagOk(problem, r)

\* C9 as stated: after every transaction, every flush and every
\* trivialPresolve a row that is not Redundant carries Equation iff neither
\* LhsInf nor RhsInf is set and lhs = rhs
C9_EquationFlagAfterEveryCall ==
    last.op \in {"applyTransaction", "flush", "trivialPresolve"}
        => EquationFlagsOk

\* C9 amended: once trivialPresolve has returned without Infeasible or
\* UnbndOrInfeas, and after every transaction and every flush from then on,
\* a row that is not Redundant carries Equation iff neither LhsInf nor
\* RhsInf is set and lhs = rhs
C9_EquationFlagOnceSettled ==
    (/\ last.op # "ProblemUpdate"
     /\ ~(last.op = "trivialPresolve" /\ Stops(last.result)))
        => EquationFlagsOk

\* a transaction was Applied that moved the left-hand side of a row onto
\* its right-hand side
C9_NewEquationSeen ==
    /\ last.op = "applyTransaction"
    /\ last.result = "kApplied"
    /\ \E k \in DOMAIN Catalog(inst)[last.arg] :
          LET reduction == Catalog(inst)[last.arg][k]
          IN /\ reduction.row >= 0
             /\ reduction.col = RowReduction.LHS
             /\ "Redundant" \notin problem.rflags[reduction.row]
             /\ "Equation" \in problem.rflags[reduction.row]
             /\ problem.lhs[reduction.row] = problem.rhs[reduction.row]

\* ------------------------------------------------------------------------
\* The bound mutators called directly: changeLB, changeUB and fixCol on any
\* column, with a flush now and then
\* ------------------------------------------------------------------------

\* the values the caller passes: 0.0, 1.0 and a huge value
BoundValues == {0, Unit, HugeVal}

\* the values passed for a column of a DomainProblem: huge ones of either
\* sign, fractional ones and ones within the tolerance of 0.0 and of 1.0
DomainValues == {-HugeVal, -FeasTol, 0, 2, Unit, Unit + FeasTol, HugeVal}

CallValues(i) == IF i = "H" THEN DomainValues ELSE BoundValues

ChangeLB ==
    /\ phase = "running"
    /\ ncalls < MaxCalls
    /\ \E c \in Cols : \E v \in CallValues(inst) :
          Returned("changeLB", [col |-> c, val |-> v], changeLB(Cur, c, v))
    /\ ncalls' = ncalls + 1
    /\ UNCHANGED inst

ChangeUB ==
    /\ phase = "running"
    /\ ncalls < MaxCalls
    /\ \E c \in Cols : \E v \in CallValues(inst) :
          Returned("changeUB", [col |-> c, val |-> v], changeUB(Cur, c, v))
    /\ ncalls' = ncalls + 1
    /\ UNCHANGED inst

FixCol ==
    /\ phase = "running"
    /\ ncalls < MaxCalls
    /\ \E c \in Cols : \E v \in CallValues(inst) :
          Returned("fixCol", [col |-> c, val |-> v], fixCol(Cur, c, v))
    /\ ncalls' = ncalls + 1
    /\ UNCHANGED inst

NextBounds ==
    \/ TrivialPresolve
    \/ ChangeLB
    \/ ChangeUB
    \/ FixCol
    \/ Flush

SpecBounds == Init /\ [][NextBounds]_vars

\* the stored activity of a row is the one computed from the bounds, the
\* bound flags and the coefficients as they are now
ActivityExact(p, r) ==
    LET stored == p.activities[r]
    IN [min |-> stored.min, max |-> stored.max,
        ninfmin |-> stored.ninfmin, ninfmax |-> stored.ninfmax]
          = compute_row_activity(p, r)

\* C10: after any sequence of changeLB, changeUB and fixCol calls followed
\* by a flush, the stored activity (min, max, ninfmin, ninfmax) of every
\* row that is not Redundant equals the activity recomputed from scratch
C10_ActivitiesExactAfterFlush ==
    (last.op = "flush" /\ ~Stops(last.result))
        => \A r \in Rows :
              "Redundant" \notin problem.rflags[r] => ActivityExact(problem, r)


\* ------------------------------------------------------------------------
\* Claims about flush and trivialPresolve
\* ------------------------------------------------------------------------

\* C11: after flush has returned without reporting Infeasible, every index
\* in singletonColumns refers to a column with colsize = 1
C11_SingletonColumnsAfterFlush ==
    (last.op = "flush" /\ last.result # "kInfeasible")
        => \A i \in DOMAIN update.singletonColumns :
              problem.colsize[update.singletonColumns[i]] = 1

\* a flush that returned with a singleton column left on the list while
\* another column has lost its last entry or was deleted
C11_SingletonKeptSeen ==
    /\ last.op = "flush"
    /\ last.result # "kInfeasible"
    /\ update.singletonColumns # <<>>
    /\ \E c \in 0..(problem.ncols - 1) : problem.colsize[c] < 1

\* ------------------------------------------------------------------------
\* A driver that may run the trivial presolve again
\* ------------------------------------------------------------------------

\* trivialPresolve called after construction (arg 0) or once more later in
\* the round (arg 1)
TrivialPresolveAgain ==
    /\ phase \in {"constructed", "running"}
    /\ ncalls < MaxCalls
    /\ Returned("trivialPresolve", IF phase = "constructed" THEN 0 ELSE 1,
                trivialPresolve(Cur))
    /\ ncalls' = IF phase = "constructed" THEN ncalls ELSE ncalls + 1
    /\ UNCHANGED inst

NextAgain ==
    \/ TrivialPresolveAgain
    \/ ApplyTransaction
    \/ Flush
    \/ ClearChangeInfo

SpecAgain == Init /\ [][NextAgain]_vars

\* the worklists of the update
Worklists(u) ==
    <<u.singletonColumns, u.emptyColumns, u.changed_activities,
      u.singletonRows, u.firstNewSingletonCol>>

\* the problem data: everything of the problem but the round in which an
\* activity was last queued
ProblemData(p) ==
    [p EXCEPT !.activities =
        [r \in DOMAIN @ |-> [min |-> @[r].min, max |-> @[r].max,
                              ninfmin |-> @[r].ninfmin,
                              ninfmax |-> @[r].ninfmax]]]

\* C12: a trivialPresolve that directly follows a trivialPresolve leaves
\* the problem data, the worklists, firstNewSingletonCol and the statistics
\* as the first call left them
C12_TrivialPresolveIdempotent ==
    [][(last.op = "trivialPresolve" /\ last'.op = "trivialPresolve")
          => /\ ProblemData(problem') = ProblemData(problem)
             /\ Worklists(update') = Worklists(update)
             /\ stats' = stats]_vars

\* ------------------------------------------------------------------------
\* The trivial presolve of a problem whose only row is a singleton equation
\* a * x = b over a continuous column lb <= x <= ub with objective obj
\* ------------------------------------------------------------------------

SingletonEquation(a, b, lb, ub, obj, flagged) ==
    MkProblem(<<lb>>, <<ub>>, <<{}>>, <<obj>>, <<b>>, <<b>>,
              <<IF flagged THEN {"Equation"} ELSE {}>>, <<<<a>>>>)

SingletonEquations ==
    {SingletonEquation(a, b, lb, ub, obj, flagged) :
        a \in {1, 2, -1, -2}, b \in {-2 * Unit, 0, 2 * Unit, 4 * Unit},
        lb \in {-2 * Unit, 0, Unit}, ub \in {Unit, 2 * Unit, 10 * Unit},
        obj \in {-1, 0, 1, 2}, flagged \in BOOLEAN}

InitSingleton ==
    /\ inst = "S"
    /\ problem \in SingletonEquations
    /\ update = NewUpdate(problem.nrows, problem.ncols)
    /\ stats = NewStatistics
    /\ postsolve = <<>>
    /\ phase = "constructed"
    /\ last = Called("ProblemUpdate", 0, ConflictView(update), "none", <<>>)
    /\ ncalls = 0

NextSingleton ==
    \/ TrivialPresolve
    \/ Flush

SpecSingleton == InitSingleton /\ [][NextSingleton]_vars

\* the solution b/a of the singleton equation of p lies within the bounds
SolutionWithinBounds(p) ==
    /\ Divides(p.coef[0][0], p.rhs[0])
    /\ p.lbs[0] <= Quot(p.rhs[0], p.coef[0][0])
    /\ Quot(p.rhs[0], p.coef[0][0]) <= p.ubs[0]

\* C13: for a singleton equation a * x = b with lb <= b/a <= ub the
\* trivial presolve fixes x to b/a, marks the row redundant, ends with
\* ndeletedcols = 1 and ndeletedrows = 1 and adds obj[x] * (b/a) to the
\* objective offset
C13_SingletonEquationFixesColumn ==
    [][(phase = "constructed" /\ last'.op = "trivialPresolve"
        /\ SolutionWithinBounds(problem))
          => /\ last'.result \notin {"kInfeasible", "kUnbndOrInfeas"}
             /\ "Fixed" \in problem'.cflags[0]
             /\ problem'.lbs[0] = Quot(problem.rhs[0], problem.coef[0][0])
             /\ problem'.ubs[0] = Quot(problem.rhs[0], problem.coef[0][0])
             /\ "Redundant" \in problem'.rflags[0]
             /\ stats'.ndeletedcols = 1
             /\ stats'.ndeletedrows = 1
             /\ problem'.offset = problem.offset
                   + problem.obj[0] * Quot(problem.rhs[0], problem.coef[0][0])]_vars

\* min x, 2x = 4, 0 <= x <= 10 after its trivial presolve: x fixed to 2 and
\* the offset 2
C13_ExampleSeen ==
    /\ inst = "S"
    /\ last.op = "trivialPresolve"
    /\ problem.lhs[0] = 4 * Unit /\ problem.rhs[0] = 4 * Unit
    /\ problem.lbs[0] = 2 * Unit /\ problem.ubs[0] = 2 * Unit
    /\ "Fixed" \in problem.cflags[0]
    /\ problem.offset = 2 * Unit
    /\ stats.ndeletedcols = 1 /\ stats.ndeletedrows = 1

\* ------------------------------------------------------------------------
\* The trivial presolve with dual reductions on (dualreds = 2) over problems
\* of two columns and two rows, each row a >=-row or a <=-row
\* ------------------------------------------------------------------------

\* the domains a column of the family may have: [0, 2], [0, +oo) and the
\* empty [1, 0]
DualFixDomains ==
    {[lb |-> 0, ub |-> 2 * Unit, flags |-> {}],
     [lb |-> 0, ub |-> 0, flags |-> {"UbInf"}],
     [lb |-> Unit, ub |-> 0, flags |-> {}]}

\* the rows of the family: the sense, the finite side and the coefficients
DualFixRows ==
    [sense : {"ge", "le"}, side : {0, Unit},
     coefs : {<<1, 0>>, <<1, 1>>, <<0, 1>>, <<1, -1>>}]

DualFixProblem(d0, d1, obj1, r0, r1) ==
    MkProblem(<<d0.lb, d1.lb>>, <<d0.ub, d1.ub>>, <<d0.flags, d1.flags>>,
              <<1, obj1>>,
              <<IF r0.sense = "ge" THEN r0.side ELSE 0,
                IF r1.sense = "ge" THEN r1.side ELSE 0>>,
              <<IF r0.sense = "le" THEN r0.side ELSE 0,
                IF r1.sense = "le" THEN r1.side ELSE 0>>,
              <<IF r0.sense = "ge" THEN {"RhsInf"} ELSE {"LhsInf"},
                IF r1.sense = "ge" THEN {"RhsInf"} ELSE {"LhsInf"}>>,
              <<r0.coefs, r1.coefs>>)

DualFixProblems ==
    {DualFixProblem(d0, d1, obj1, r0, r1) :
        d0 \in DualFixDomains, d1 \in DualFixDomains, obj1 \in {0, 1},
        r0 \in DualFixRows, r1 \in DualFixRows}

InitDualFix ==
    /\ inst = "F"
    /\ problem \in DualFixProblems
    /\ update = NewUpdate(problem.nrows, problem.ncols)
    /\ stats = NewStatistics
    /\ postsolve = <<>>
    /\ phase = "constructed"
    /\ last = Called("ProblemUpdate", 0, ConflictView(update), "none", <<>>)
    /\ ncalls = 0

NextDualFix ==
    \/ TrivialPresolve
    \/ Flush

SpecDualFix == InitDualFix /\ [][NextDualFix]_vars

\* column c of p has objective +1, lower bound 0 and appears only with
\* coefficient +1, and only in rows that are unbounded on the side unbounded
EntersOnlyRows(p, c, unbounded) ==
    /\ p.obj[c] = 1
    /\ "LbInf" \notin p.cflags[c] /\ p.lbs[c] = 0
    /\ \A r \in 0..(p.nrows - 1) :
          p.coef[r][c] # 0 =>
             /\ p.coef[r][c] = 1
             /\ unbounded \in p.rflags[r]
             /\ p.rflags[r] \cap {"LhsInf", "RhsInf"} = {unbounded}

\* column c is flagged Fixed and the trail holds its value 0
FixedAtZero(p, trail, c) ==
    /\ "Fixed" \in p.cflags[c]
    /\ \E i \in DOMAIN trail :
          trail[i] = [type |-> "kFixedCol", col |-> c, val |-> 0]

\* C14 as stated: with dualreds = 2 a column with objective +1 and lower
\* bound 0 that appears only with coefficient +1 in >=-rows is fixed to 0 by
\* a trivial presolve that does not stop with Infeasible or UnbndOrInfeas
C14_DualFixInGeRows ==
    [][(phase = "constructed" /\ last'.op = "trivialPresolve"
        /\ ~Stops(last'.result))
          => \A c \in 0..(problem.ncols - 1) :
                EntersOnlyRows(problem, c, "RhsInf")
                   => FixedAtZero(problem', postsolve', c)]_vars

\* C14 amended: with dualreds = 2 a column with objective +1 and lower
\* bound 0 that appears only with coefficient +1 in <=-rows, the rows that
\* put no down-lock on it, is fixed to 0 by a trivial presolve that does not
\* stop with Infeasible or UnbndOrInfeas
C14_DualFixInLeRows ==
    [][(phase = "constructed" /\ last'.op = "trivialPresolve"
        /\ ~Stops(last'.result))
          => \A c \in 0..(problem.ncols - 1) :
                EntersOnlyRows(problem, c, "LhsInf")
                   => FixedAtZero(problem', postsolve', c)]_vars

\* a trivial presolve that fixed the first column, which two <=-rows hold
\* with coefficient +1, to 0 by moving its upper bound down
C14_DualFixedSeen ==
    /\ inst = "F"
    /\ last.op = "trivialPresolve"
    /\ ~Stops(last.result)
    /\ problem.locks[0] = [down |-> 0, up |-> 2]
    /\ FixedAtZero(problem, postsolve, 0)
    /\ problem.ubs[0] = 0 /\ "UbInf" \notin problem.cflags[0]

\* ------------------------------------------------------------------------
\* Problems with two parallel columns: column 0 is scale times column 1 in
\* an equation and in a <=-row; a third column enters the equation only
\* ------------------------------------------------------------------------

\* the domains of the parallel columns: [0, 2], (-oo, 1], [-1, +oo), the
\* free domain and [-1, 1]
ParallelDomains ==
    {[lb |-> 0, ub |-> 2 * Unit, flags |-> {}],
     [lb |-> 0, ub |-> Unit, flags |-> {"LbInf"}],
     [lb |-> -Unit, ub |-> 0, flags |-> {"UbInf"}],
     [lb |-> 0, ub |-> 0, flags |-> {"LbInf", "UbInf"}],
     [lb |-> -Unit, ub |-> Unit, flags |-> {}]}

ParallelProblem(scale, d0, d1, obj1) ==
    MkProblem(<<d0.lb, d1.lb, 0>>, <<d0.ub, d1.ub, Unit>>,
              <<d0.flags, d1.flags, {}>>, <<scale * obj1, obj1, 0>>,
              <<Unit, 0>>, <<Unit, 3 * Unit>>,
              <<{"Equation"}, {"LhsInf"}>>,
              <<<<scale, 1, 1>>, <<scale, 1, 0>>>>)

ParallelProblems ==
    {ParallelProblem(scale, d0, d1, obj1) :
        scale \in {1, 2, -1, -2}, d0 \in ParallelDomains,
        d1 \in ParallelDomains, obj1 \in {0, 1}}

InitParallel ==
    /\ inst = "P"
    /\ problem \in ParallelProblems
    /\ update = NewUpdate(problem.nrows, problem.ncols)
    /\ stats = NewStatistics
    /\ postsolve = <<>>
    /\ phase = "constructed"
    /\ last = Called("ProblemUpdate", 0, ConflictView(update), "none", <<>>)
    /\ ncalls = 0

NextParallel ==
    \/ TrivialPresolve
    \/ ApplyTransaction
    \/ Flush

SpecParallel == InitParallel /\ [][NextParallel]_vars

\* the factor scale with column 0 = scale * column 1, read off a row that
\* holds the columns
ParallelScale(p) ==
    LET r == CHOOSE r \in 0..(p.nrows - 1) : p.coef[r][1] # 0
    IN p.coef[r][0] \div p.coef[r][1]

\* the bound of column 0 that is paired with the given side of column 1
PairedBound(p, side) ==
    IF (ParallelScale(p) > 0) = (side = "Lb")
    THEN [inf |-> "LbInf" \in p.cflags[0], val |-> p.lbs[0]]
    ELSE [inf |-> "UbInf" \in p.cflags[0], val |-> p.ubs[0]]

\* C15: a PARALLEL record for the active columns 0 and 1 is applied and
\* merges the domains into column 1: each new bound is the old bound plus
\* scale times the paired bound of column 0, infinite iff one of the two is;
\* column 0 ends with lb = ub = 0, Substituted, not Fixed, and queued in
\* deleted_cols
C15_ParallelMergesDomains ==
    [][(inst = "P" /\ phase = "running" /\ last'.op = "applyTransaction"
        /\ ~Test(problem.cflags[0], kInactive)
        /\ ~Test(problem.cflags[1], kInactive)
        /\ \E r \in 0..(problem.nrows - 1) : problem.coef[r][1] # 0)
          => /\ last'.result = "kApplied"
             /\ ("LbInf" \in problem'.cflags[1])
                   <=> ("LbInf" \in problem.cflags[1]
                           \/ PairedBound(problem, "Lb").inf)
             /\ ("UbInf" \in problem'.cflags[1])
                   <=> ("UbInf" \in problem.cflags[1]
                           \/ PairedBound(problem, "Ub").inf)
             /\ "LbInf" \notin problem'.cflags[1]
                   => problem'.lbs[1] = problem.lbs[1]
                         + ParallelScale(problem) * PairedBound(problem, "Lb").val
             /\ "UbInf" \notin problem'.cflags[1]
                   => problem'.ubs[1] = problem.ubs[1]
                         + ParallelScale(problem) * PairedBound(problem, "Ub").val
             /\ problem'.lbs[0] = 0 /\ problem'.ubs[0] = 0
             /\ "Substituted" \in problem'.cflags[0]
             /\ "Fixed" \notin problem'.cflags[0]
             /\ update'.deleted_cols = Append(update.deleted_cols, 0)]_vars

\* the merge of two columns with domain [0, 2] and scale 1 was applied: the
\* merged column has domain [0, 4]
C15_MergedExampleSeen ==
    /\ inst = "P"
    /\ last.op = "applyTransaction" /\ last.result = "kApplied"
    /\ problem.coef[1][0] = 1 /\ problem.coef[1][1] = 1
    /\ "Substituted" \in problem.cflags[0]
    /\ problem.lbs[1] = 0 /\ problem.ubs[1] = 4 * Unit
    /\ problem.cflags[1] \cap {"LbInf", "UbInf"} = {}
    /\ postsolve[Len(postsolve)].col1ub = 2 * Unit

\* ------------------------------------------------------------------------
\* A driver that also offers single SUBSTITUTE records: a column of an
\* untouched equation row, substituted by means of that row
\* ------------------------------------------------------------------------

SubstituteTransaction(col, row) ==
    <<Reduction(ColReduction.SUBSTITUTE, col, row)>>

ApplySubstitute ==
    /\ phase = "running"
    /\ ncalls < MaxCalls
    /\ \E col \in 0..(problem.ncols - 1) : \E row \in 0..(problem.nrows - 1) :
          /\ "Equation" \in problem.rflags[row]
          /\ "Redundant" \notin problem.rflags[row]
          /\ problem.coef[row][col] # 0
          /\ Returned("applySubstitute", [col |-> col, row |-> row],
                      applyTransaction(Cur, SubstituteTransaction(col, row)))
    /\ ncalls' = ncalls + 1
    /\ UNCHANGED inst

NextSubstitute ==
    \/ TrivialPresolve
    \/ SetPostponeSubstitutions
    \/ ApplyTransaction
    \/ ApplySubstitute
    \/ Flush

SpecSubstitute == Init /\ [][NextSubstitute]_vars

\* the state with the substitution budget raised beyond what the problem
\* can need
RaisedBudget(s) ==
    [s EXCEPT !.options.maxfillinpersubstitution =
                  s.problem.nrows * s.problem.ncols,
              !.options.maxshiftperrow = s.problem.ncols]

\* the SUBSTITUTE record of col by row fails the sparsity condition in s
OverBudget(s, col, row) ==
    /\ s.problem.rowsize[row] > 1
    /\ ~checkAggregationSparsityCondition(
           s.problem, col, DenseRow(s.problem, row), row,
           s.options.maxfillinpersubstitution, s.options.maxshiftperrow)

SubstitutionsOnTrail(trail) ==
    {i \in DOMAIN trail : trail[i].type = "kSubstitutedCol"}

\* C16: with postponeSubstitutions false a SUBSTITUTE record over an
\* equality row of size > 1 that fails the sparsity condition is Rejected,
\* the column is not flagged Substituted and the trail gets no substitution;
\* on the same state with the budget raised the transaction is Applied
C16_OverBudgetRejectedRaisedApplied ==
    [][(last'.op = "applySubstitute" /\ ~update.postponeSubstitutions
        /\ OverBudget(Cur, last'.arg.col, last'.arg.row))
          => /\ last'.result = "kRejected"
             /\ "Substituted" \notin problem'.cflags[last'.arg.col]
             /\ SubstitutionsOnTrail(postsolve') = SubstitutionsOnTrail(postsolve)
             /\ applyTransaction(
                    RaisedBudget(Cur),
                    SubstituteTransaction(last'.arg.col, last'.arg.row)).status
                   = "kApplied"]_vars

\* a substitution was rejected for its fill-in
C16_OverBudgetRejectedSeen ==
    /\ last.op = "applySubstitute"
    /\ last.result = "kRejected"
    /\ ~last.before.postponeSubstitutions
    /\ OverBudget(Cur, last.arg.col, last.arg.row)
    /\ applyTransaction(RaisedBudget(Cur),
                        SubstituteTransaction(last.arg.col, last.arg.row)).s.valid

\* ------------------------------------------------------------------------
\* A family of problems for the bound mutators: the first column takes
\* each kind of domain, and the mutators are called with DomainValues
\* ------------------------------------------------------------------------

ColumnDomains ==
    {[lb |-> 0, ub |-> Unit, flags |-> {}],
     [lb |-> 0, ub |-> Unit, flags |-> {"Integral"}],
     [lb |-> 0, ub |-> Unit, flags |-> {"ImplInt"}],
     [lb |-> 0, ub |-> Unit, flags |-> {"LbInf"}],
     [lb |-> 0, ub |-> 0, flags |-> {"UbInf"}],
     [lb |-> 0, ub |-> 0, flags |-> {"LbInf", "UbInf"}],
     [lb |-> -HugeVal, ub |-> HugeVal, flags |-> {}]}

\* x0 + x1 = 1.0 and x0 - x1 <= 1.0 with x1 an integer in [0.0, 2.0]
DomainProblem(d0) ==
    MkProblem(<<d0.lb, 0>>, <<d0.ub, 2 * Unit>>,
              <<d0.flags, {"Integral"}>>, <<1, 1>>,
              <<Unit, 0>>, <<Unit, Unit>>,
              <<{"Equation"}, {"LhsInf"}>>,
              <<<<1, 1>>, <<1, -1>>>>)

DomainProblems == {DomainProblem(d0) : d0 \in ColumnDomains}

InitDomain ==
    /\ inst = "H"
    /\ problem \in DomainProblems
    /\ update = NewUpdate(problem.nrows, problem.ncols)
    /\ stats = NewStatistics
    /\ postsolve = <<>>
    /\ phase = "constructed"
    /\ last = Called("ProblemUpdate", 0, ConflictView(update), "none", <<>>)
    /\ ncalls = 0

NextDomain ==
    \/ TrivialPresolve
    \/ ChangeLB
    \/ ChangeUB
    \/ FixCol
    \/ SetPostponeSubstitutions
    \/ ApplySubstitute
    \/ Flush

SpecDomain == InitDomain /\ [][NextDomain]_vars

\* ------------------------------------------------------------------------
\* Claims about the bound and fix mutators
\* ------------------------------------------------------------------------

\* a value a column with flags cf and bounds lb, ub cannot be fixed to
FixInfeasible(cf, lb, ub, v) ==
    \/ "LbInf" \notin cf /\ v < lb - FeasTol
    \/ "UbInf" \notin cf /\ v > ub + FeasTol
    \/ "Integral" \in cf /\ ~isFeasIntegral(v)

\* what the Reduced case of fixCol leaves behind for column c, but for the
\* bound flags
FixedTo(p, u, st, p2, u2, st2, c, v) ==
    /\ p2.lbs[c] = v
    /\ p2.ubs[c] = v
    /\ "Fixed" \in p2.cflags[c]
    /\ u2.deleted_cols = Append(u.deleted_cols, c)
    /\ st2.ndeletedcols = st.ndeletedcols + 1
    /\ IF "Integral" \in p.cflags[c]
       THEN p2.nintcols = p.nintcols - 1 /\ p2.ncontcols = p.ncontcols
       ELSE p2.ncontcols = p.ncontcols - 1 /\ p2.nintcols = p.nintcols
    /\ "BoundsModified" \in u2.col_state[c]

\* C17 as stated: fixCol(c, v) on a column that is neither Substituted nor
\* Fixed returns Infeasible when v lies outside a finite bound by more than
\* the tolerance or c is Integral and v is not integral, and then leaves
\* the problem, the worklists and the state flags unchanged; otherwise it
\* returns Reduced with lb[c] = ub[c] = v, LbUseless and UbUseless cleared,
\* Fixed set, c appended to deletedCols, ndeletedcols and the column count
\* of its kind moved by one and BoundsModified set; on a Substituted column
\* it returns Unchanged and changes nothing
C17_FixColContract ==
    [][last'.op = "fixCol" =>
          LET c == last'.arg.col
              v == last'.arg.val
              cf == problem.cflags[c]
          IN /\ "Substituted" \in cf =>
                   last'.result = "kUnchanged" /\ UNCHANGED core
             /\ (~Test(cf, kInactive)
                    /\ FixInfeasible(cf, problem.lbs[c], problem.ubs[c], v)) =>
                   /\ last'.result = "kInfeasible"
                   /\ UNCHANGED <<problem, update>>
             /\ (~Test(cf, kInactive)
                    /\ ~FixInfeasible(cf, problem.lbs[c], problem.ubs[c], v)) =>
                   /\ last'.result = "kReduced"
                   /\ FixedTo(problem, update, stats,
                              problem', update', stats', c, v)
                   /\ ~Test(problem'.cflags[c], kLbUseless \cup kUbUseless)]_vars

\* C17 amended: as C17_FixColContract, but in the Reduced case LbUseless is
\* cleared if the lower bound moves (the column is LbInf or v differs from
\* lb[c]) and UbUseless if the upper bound moves; the flags of a side that
\* already holds v stay as they were
C17_FixColMovedSidesCleared ==
    [][last'.op = "fixCol" =>
          LET c == last'.arg.col
              v == last'.arg.val
              cf == problem.cflags[c]
              lbmoves == "LbInf" \in cf \/ v # problem.lbs[c]
              ubmoves == "UbInf" \in cf \/ v # problem.ubs[c]
          IN /\ "Substituted" \in cf =>
                   last'.result = "kUnchanged" /\ UNCHANGED core
             /\ (~Test(cf, kInactive)
                    /\ FixInfeasible(cf, problem.lbs[c], problem.ubs[c], v)) =>
                   /\ last'.result = "kInfeasible"
                   /\ UNCHANGED <<problem, update>>
             /\ (~Test(cf, kInactive)
                    /\ ~FixInfeasible(cf, problem.lbs[c], problem.ubs[c], v)) =>
                   /\ last'.result = "kReduced"
                   /\ FixedTo(problem, update, stats,
                              problem', update', stats', c, v)
                   /\ problem'.cflags[c] \cap kLbUseless
                         = IF lbmoves THEN {} ELSE cf \cap kLbUseless
                   /\ problem'.cflags[c] \cap kUbUseless
                         = IF ubmoves THEN {} ELSE cf \cap kUbUseless]_vars

\* a column with a huge upper bound was fixed at that bound by fixCol and
\* is Fixed with UbHuge still set
C17_FixedOnHugeBoundSeen ==
    /\ last.op = "fixCol"
    /\ last.result = "kReduced"
    /\ last.arg.val = HugeVal
    /\ "Fixed" \in problem.cflags[last.arg.col]
    /\ "UbHuge" \in problem.cflags[last.arg.col]
    /\ "LbHuge" \notin problem.cflags[last.arg.col]
    /\ problem.lbs[last.arg.col] = HugeVal
    /\ problem.ubs[last.arg.col] = HugeVal

\* C18: fixCol is idempotent: on a column that is already Fixed with
\* lb[c] = ub[c] = v, fixCol(c, v) returns Unchanged and leaves the bounds,
\* the flags, the activities, deletedCols and the other worklists, the
\* state flags, every statistics counter and the postsolve trail unchanged
C18_FixColIdempotent ==
    [][(/\ last'.op = "fixCol"
        /\ "Fixed" \in problem.cflags[last'.arg.col]
        /\ problem.lbs[last'.arg.col] = last'.arg.val
        /\ problem.ubs[last'.arg.col] = last'.arg.val)
          => (last'.result = "kUnchanged" /\ UNCHANGED core)]_vars

\* fixCol fixed a column to 1.0 and was then called again for the same
\* column with the same value
C18_FixedAgainSeen ==
    /\ last.op = "fixCol"
    /\ last.result = "kUnchanged"
    /\ last.arg.val = Unit
    /\ problem.cflags[last.arg.col] \cap kInactive = {"Fixed"}
    /\ problem.lbs[last.arg.col] = Unit
    /\ problem.ubs[last.arg.col] = Unit
    /\ update.deleted_cols = <<last.arg.col>>
    /\ stats.ndeletedcols = 1

\* how a call changeLB(c, v) or changeUB(c, v) stands to the domain of a
\* column with flags cf and bounds lb, ub: the rounded bound r, whether r
\* tightens the bound the call is about, whether the opposite bound is
\* finite, by how much r lies beyond it, and whether lb = ub already
BoundCall(op, cf, lb, ub, v) ==
    IF op = "changeLB"
    THEN LET r == IF Test(cf, {"Integral", "ImplInt"}) THEN feasCeil(v) ELSE v
         IN [r |-> r, tightens |-> "LbInf" \in cf \/ r > lb,
             oppFinite |-> "UbInf" \notin cf, opp |-> ub, excess |-> r - ub,
             alreadyEqual |-> "LbInf" \notin cf /\ lb = ub]
    ELSE LET r == IF Test(cf, {"Integral", "ImplInt"}) THEN feasFloor(v) ELSE v
         IN [r |-> r, tightens |-> "UbInf" \in cf \/ r < ub,
             oppFinite |-> "LbInf" \notin cf, opp |-> lb, excess |-> lb - r,
             alreadyEqual |-> "UbInf" \notin cf /\ lb = ub]

\* the bound of column c that op is about
BoundOf(p, op, c) == IF op = "changeLB" THEN p.lbs[c] ELSE p.ubs[c]

\* the call recorded in last' moved its bound onto the opposite bound opp,
\* fixed the column and queued it
ClampedAndFixed(opp) ==
    /\ last'.result = "kReduced"
    /\ BoundOf(problem', last'.op, last'.arg.col) = opp
    /\ "Fixed" \in problem'.cflags[last'.arg.col]
    /\ update'.deleted_cols = Append(update.deleted_cols, last'.arg.col)

\* the parts of the contract of changeLB and changeUB that do not concern
\* a rounded bound at or within the tolerance beyond the opposite bound:
\* Infeasible beyond the tolerance, the rounded bound stored when it
\* tightens inside the domain, Unchanged when it does not tighten
ChangeBoundOutsideClamp(b) ==
    /\ (b.oppFinite /\ b.excess > FeasTol) =>
          /\ last'.result = "kInfeasible"
          /\ UNCHANGED <<problem, update>>
    /\ (b.tightens /\ (~b.oppFinite \/ b.excess < 0)) =>
          /\ last'.result = "kReduced"
          /\ BoundOf(problem', last'.op, last'.arg.col) = b.r
    /\ ~b.tightens =>
          /\ last'.result = "kUnchanged"
          /\ UNCHANGED core

SideFlags(op) ==
    IF op = "changeLB"
    THEN [inf |-> "LbInf", huge |-> "LbHuge", useless |-> kLbUseless]
    ELSE [inf |-> "UbInf", huge |-> "UbHuge", useless |-> kUbUseless]

\* C20: when changeLB is called with a huge value for a column whose lower
\* bound is LbInf or LbHuge and changes the bound, the new bound is stored,
\* the column has LbHuge set afterwards (so LbUseless still holds) and no
\* row activity (min, max, ninfmin, ninfmax) has changed; symmetrically
\* for changeUB and UbHuge
C20_HugeBoundKeepsHugeFlag ==
    [][(/\ last'.op \in {"changeLB", "changeUB"}
        /\ isHugeVal(last'.arg.val)
        /\ Test(problem.cflags[last'.arg.col], SideFlags(last'.op).useless)
        /\ last'.result = "kReduced")
          => /\ BoundOf(problem', last'.op, last'.arg.col) = last'.arg.val
             /\ SideFlags(last'.op).huge \in problem'.cflags[last'.arg.col]
             /\ problem'.activities = problem.activities]_vars

\* ------------------------------------------------------------------------
\* Claims about the counters and the record-only primitives
\* ------------------------------------------------------------------------

\* the number of sides of column c whose bound differs between p and p2:
\* the stored value has changed or the bound has become finite
SidesChanged(p, p2, c) ==
    (IF p2.lbs[c] # p.lbs[c]
        \/ ("LbInf" \in p.cflags[c] /\ "LbInf" \notin p2.cflags[c])
     THEN 1 ELSE 0)
    + (IF p2.ubs[c] # p.ubs[c]
          \/ ("UbInf" \in p.cflags[c] /\ "UbInf" \notin p2.cflags[c])
       THEN 1 ELSE 0)

\* C21: in a changeLB, changeUB or fixCol call stats.nboundchgs increases
\* by exactly one for each side whose stored bound actually changes, and a
\* call that returns Unchanged or Infeasible leaves nboundchgs unchanged
C21_BoundChangesCounted ==
    [][last'.op \in {"changeLB", "changeUB", "fixCol"} =>
          /\ stats'.nboundchgs
                = stats.nboundchgs + SidesChanged(problem, problem', last'.arg.col)
          /\ last'.result \in {"kUnchanged", "kInfeasible"} =>
                stats'.nboundchgs = stats.nboundchgs]_vars

\* ------------------------------------------------------------------------
\* The record-only primitives called directly on any row or column
\* ------------------------------------------------------------------------

MarkRowRedundant ==
    /\ phase = "running"
    /\ ncalls < MaxCalls
    /\ \E r \in Rows :
          Returned("markRowRedundant", r, Ret(markRowRedundant(Cur, r), "none"))
    /\ ncalls' = ncalls + 1
    /\ UNCHANGED inst

\* markColFixed asserts that the column is active: on an inactive column a
\* build with assertions aborts and a build without them runs the body
MarkColFixed ==
    /\ phase = "running"
    /\ ncalls < MaxCalls
    /\ \E c \in Cols :
          LET s == markColFixed(Cur, c)
          IN \/ /\ Install(s)
                /\ phase' = "running"
                /\ last' = Called("markColFixed", c, ConflictView(update),
                                  "none", <<>>)
             \/ /\ ~s.valid
                /\ UNCHANGED core
                /\ phase' = "stopped"
                /\ last' = Called("markColFixed", c, ConflictView(update),
                                  "aborted", <<>>)
    /\ ncalls' = ncalls + 1
    /\ UNCHANGED inst

NextMarks ==
    \/ TrivialPresolve
    \/ MarkRowRedundant
    \/ MarkColFixed
    \/ Flush

SpecMarks == Init /\ [][NextMarks]_vars

\* C22 as stated: markRowRedundant and markColFixed are idempotent: a
\* second call on the same index leaves the flags, the worklists, the
\* counters and the column counts exactly as after the first call
C22_MarksIdempotent ==
    [][(/\ last.op \in {"markRowRedundant", "markColFixed"}
        /\ last'.op = last.op
        /\ last'.arg = last.arg
        /\ last'.result = "none")
          => UNCHANGED core]_vars

\* C22 amended: markRowRedundant on a row that is Redundant already changes
\* nothing; markColFixed on a column that is Fixed already, where it is
\* not stopped by its assertion, appends the column to deletedCols once
\* more, increments ndeletedcols again and decrements the column count of
\* its kind again, leaving the flags as they are
C22_OnlyRowMarkIdempotent ==
    [][/\ (/\ last'.op = "markRowRedundant"
           /\ "Redundant" \in problem.rflags[last'.arg])
             => UNCHANGED core
       /\ (/\ last'.op = "markColFixed"
           /\ "Fixed" \in problem.cflags[last'.arg]
           /\ last'.result = "none")
             => /\ problem'.cflags = problem.cflags
                /\ update'.deleted_cols = Append(update.deleted_cols, last'.arg)
                /\ stats'.ndeletedcols = stats.ndeletedcols + 1
                /\ problem'.nintcols + problem'.ncontcols
                      = problem.nintcols + problem.ncontcols - 1]_vars

\* markColFixed has run twice for one column, which is queued twice
C22_ColumnQueuedTwiceSeen ==
    /\ last.op = "markColFixed"
    /\ last.result = "none"
    /\ Cardinality({i \in DOMAIN update.deleted_cols :
                       update.deleted_cols[i] = last.arg}) = 2
    /\ stats.ndeletedcols >= 2

\* ------------------------------------------------------------------------
\* The activity callback called directly, next to a mutator that calls it
\* ------------------------------------------------------------------------

ActivityChange == {"kMin", "kMax"}

UpdateActivity ==
    /\ phase = "running"
    /\ ncalls < MaxCalls
    /\ \E actChange \in ActivityChange : \E r \in Rows :
          Returned("update_activity", [change |-> actChange, row |-> r],
                   Ret(update_activity(Cur, actChange, r), "none"))
    /\ ncalls' = ncalls + 1
    /\ UNCHANGED inst

NextActivity ==
    \/ TrivialPresolve
    \/ UpdateActivity
    \/ FixCol
    \/ Flush

SpecActivity == InitParallel /\ [][NextActivity]_vars

\* the side of the activity that actChange touches has more than one
\* infinite contribution
MultiplyInfinite(activity, actChange) ==
    \/ actChange = "kMin" /\ activity.ninfmin > 1
    \/ actChange = "kMax" /\ activity.ninfmax > 1

\* the rows appended to changedActivities between u and u2
NewlyChanged(u, u2) ==
    SubSeq(u2.changed_activities, Len(u.changed_activities) + 1,
           Len(u2.changed_activities))

\* C23: update_activity(change, r, activity) appends r to changedActivities
\* and sets activity.lastChange = nRounds if and only if lastChange differs
\* from nRounds, row r is not redundant and the touched side is not
\* multiply-infinite; otherwise it changes nothing. Consequently a row is
\* enqueued at most once while nRounds stays the same: a row appended in a
\* fixCol call was not stamped with nRounds before and is appended once
C23_UpdateActivityEnqueuesOnce ==
    [][/\ last'.op = "update_activity" =>
             LET r == last'.arg.row
                 activity == problem.activities[r]
             IN IF /\ activity.lastchange # stats.nrounds
                   /\ "Redundant" \notin problem.rflags[r]
                   /\ ~MultiplyInfinite(activity, last'.arg.change)
                THEN /\ update' = [update EXCEPT !.changed_activities = Append(@, r)]
                     /\ problem' = [problem EXCEPT
                                       !.activities[r].lastchange = stats.nrounds]
                     /\ UNCHANGED <<stats, postsolve>>
                ELSE UNCHANGED core
       /\ last'.op = "fixCol" =>
             LET new == NewlyChanged(update, update')
             IN \A i \in DOMAIN new :
                   /\ problem.activities[new[i]].lastchange # stats.nrounds
                   /\ problem'.activities[new[i]].lastchange = stats.nrounds
                   /\ \A j \in DOMAIN new : new[j] = new[i] => j = i]_vars

\* update_activity was called for the minimum of a row that has more than
\* one infinite contribution to its minimum but not to its maximum, and
\* the row was left unstamped
C23_MultiplyInfiniteSkippedSeen ==
    /\ last.op = "update_activity"
    /\ last.arg.change = "kMin"
    /\ problem.activities[last.arg.row].ninfmin > 1
    /\ problem.activities[last.arg.row].ninfmax <= 1
    /\ "Redundant" \notin problem.rflags[last.arg.row]
    /\ problem.activities[last.arg.row].lastchange # stats.nrounds

\* ------------------------------------------------------------------------
\* A driver that compresses, started on the instances and on instance E,
\* which has an empty row
\* ------------------------------------------------------------------------

Compress ==
    /\ phase = "running"
    /\ ncalls < MaxCalls
    /\ \E full \in BOOLEAN :
          Returned("compress", IF full THEN 1 ELSE 0,
                   Ret(compress(Cur, full), "none"))
    /\ ncalls' = ncalls + 1
    /\ UNCHANGED inst

InitCounts ==
    /\ inst \in Instances \cup {"E"}
    /\ problem = InstanceProblem(inst)
    /\ update = NewUpdate(problem.nrows, problem.ncols)
    /\ stats = NewStatistics
    /\ postsolve = <<>>
    /\ phase = "constructed"
    /\ last = Called("ProblemUpdate", 0, ConflictView(update), "none", <<>>)
    /\ ncalls = 0

NextCounts ==
    \/ TrivialPresolve
    \/ ApplyTransaction
    \/ Flush
    \/ ClearStates
    \/ Compress

SpecCounts == InitCounts /\ [][NextCounts]_vars

\* the rows present in the problem that are not redundant
ActiveRows == {r \in Rows : "Redundant" \notin problem.rflags[r]}

\* the columns present in the problem that are neither Fixed nor Substituted
ActiveCols == {c \in Cols : ~Test(problem.cflags[c], kInactive)}

\* C24: in every state between operations (after trivialPresolve, after an
\* applied transaction, after flush, after compress) getNActiveRows()
\* equals the number of rows present that are not redundant and
\* getNActiveCols() the number of columns present that are neither Fixed
\* nor Substituted
C24_ActiveCountsExact ==
    (/\ \/ last.op \in {"trivialPresolve", "flush", "compress"}
        \/ last.op = "applyTransaction" /\ last.result = "kApplied"
     /\ ~Stops(last.result))
        => /\ getNActiveRows(Cur) = Cardinality(ActiveRows)
           /\ getNActiveCols(Cur) = Cardinality(ActiveCols)

\* ------------------------------------------------------------------------
\* Fixing columns, at a value or at infinity, and their removal: fixCol,
\* fixColInfinity and markRowRedundant called directly on a DomainProblem,
\* and flush followed up to the point where removeFixedCols has run
\* ------------------------------------------------------------------------

\* fixColInfinity asserts val < 0 and val > 0 at once: a build with
\* assertions aborts wherever the column is to be fixed, a build without
\* them runs the body
FixColInfinity ==
    /\ phase = "running"
    /\ ncalls < MaxCalls
    /\ \E c \in Cols : \E v \in CallValues(inst) :
          \/ Returned("fixColInfinity", [col |-> c, val |-> v],
                      fixColInfinity(Cur, c, v))
          \/ /\ ~Test(problem.cflags[c], kInactive)
             /\ v # 0
             /\ UNCHANGED core
             /\ phase' = "stopped"
             /\ last' = Called("fixColInfinity", [col |-> c, val |-> v],
                               ConflictView(update), "aborted", <<>>)
    /\ ncalls' = ncalls + 1
    /\ UNCHANGED inst

\* the first step of the column part of flush; the rest of that flush is
\* not followed from the state it leaves
RemoveFixedCols ==
    /\ phase = "running"
    /\ ncalls < MaxCalls
    /\ LET s == removeFixedCols(Cur)
       IN /\ s.valid
          /\ Install(s)
          /\ phase' = "flushing"
          /\ last' = Called("removeFixedCols", 0, ConflictView(update),
                            "none", <<>>)
    /\ ncalls' = ncalls + 1
    /\ UNCHANGED inst

NextFixed ==
    \/ TrivialPresolve
    \/ FixCol
    \/ FixColInfinity
    \/ MarkRowRedundant
    \/ RemoveFixedCols
    \/ Flush

SpecFixed == InitDomain /\ [][NextFixed]_vars

\* column c of p is Fixed at the finite value lb[c]
FixedFinite(p, c) ==
    "Fixed" \in p.cflags[c] /\ ~Test(p.cflags[c], kUnbounded)

\* the columns of the worklist cols that are Fixed at a finite value
FixedFiniteOf(p, cols) == SelectSeq(cols, LAMBDA c : FixedFinite(p, c))

\* the constant the columns of cols contribute to row r
RECURSIVE FixedContribution(_, _, _)
FixedContribution(p, cols, r) ==
    IF cols = <<>> THEN 0
    ELSE p.coef[r][Head(cols)] * p.lbs[Head(cols)]
            + FixedContribution(p, Tail(cols), r)

\* the constant the columns of cols contribute to the objective
RECURSIVE FixedObjective(_, _)
FixedObjective(p, cols) ==
    IF cols = <<>> THEN 0
    ELSE p.obj[Head(cols)] * p.lbs[Head(cols)] + FixedObjective(p, Tail(cols))

\* the notifyFixedCol entries among the entries appended to the trail
NewFixedColNotes(trail, trail2) ==
    SelectSeq(SubSeq(trail2, Len(trail) + 1, Len(trail2)),
              LAMBDA e : e.type = "kFixedCol")

\* what removeFixedCols does to the trail, the objective offset, the rows
\* and the columns that are not Fixed, for the fixed columns cols
RemovedFixedCols(p, p2, trail, trail2, cols) ==
    /\ NewFixedColNotes(trail, trail2)
          = [i \in DOMAIN cols |->
                [type |-> "kFixedCol", col |-> cols[i], val |-> p.lbs[cols[i]]]]
    /\ p2.offset = p.offset + FixedObjective(p, cols)
    /\ \A r \in 0..(p.nrows - 1) :
          LET shift == IF "Redundant" \in p.rflags[r] THEN 0
                       ELSE FixedContribution(p, cols, r)
          IN /\ p2.activities[r].min = p.activities[r].min - shift
             /\ p2.activities[r].max = p.activities[r].max - shift
             /\ p2.activities[r].ninfmin = p.activities[r].ninfmin
             /\ p2.activities[r].ninfmax = p.activities[r].ninfmax
             /\ p2.lhs[r] = IF "LhsInf" \in p.rflags[r] THEN p.lhs[r]
                            ELSE p.lhs[r] - shift
             /\ p2.rhs[r] = IF "RhsInf" \in p.rflags[r] THEN p.rhs[r]
                            ELSE p.rhs[r] - shift
    /\ \A c \in 0..(p.ncols - 1) :
          /\ p2.lbs[c] = p.lbs[c]
          /\ p2.ubs[c] = p.ubs[c]
          /\ p2.cflags[c] = p.cflags[c]
          /\ "Fixed" \notin p.cflags[c] => p2.obj[c] = p.obj[c]
    /\ p2.coef = p.coef

\* C25 as stated: removeFixedCols, for each column c of deletedCols that
\* is Fixed at a finite value v = lb[c], appends notifyFixedCol(c, v) to
\* the trail, adds obj[c] * v to the offset and sets obj[c] to 0, and
\* subtracts a * v from both activity ends and from each finite side of
\* every non-redundant row that holds c with coefficient a; redundant rows
\* and entries of deletedCols that are not Fixed are left untouched
C25_RemoveFixedCols ==
    [][last'.op = "removeFixedCols" =>
          LET cols == FixedFiniteOf(problem, update.deleted_cols)
          IN /\ RemovedFixedCols(problem, problem', postsolve, postsolve', cols)
             /\ \A i \in DOMAIN cols : problem'.obj[cols[i]] = 0
             /\ UNCHANGED <<update, stats>>]_vars

\* the sign of a value
Sign(v) == IF v < 0 THEN -1 ELSE IF v > 0 THEN 1 ELSE 0

\* the entries appended to the trail that name column c
NewNotesOf(trail, trail2, c) ==
    SelectSeq(SubSeq(trail2, Len(trail) + 1, Len(trail2)),
              LAMBDA e : e.type \in {"kFixedCol", "kFixedInfCol"} /\ e.col = c)

\* C26: a column fixed by fixColInfinity(c, v) is recorded on the trail
\* at the next flush by notifyFixedInfCol whose sign is the sign of v, and
\* never by notifyFixedCol
C26_InfinityFixRecordedWithSignOfVal ==
    [][(/\ last.op = "fixColInfinity"
        /\ last.result = "kReduced"
        /\ last'.op = "flush")
       => LET notes == NewNotesOf(postsolve, postsolve', last.arg.col)
          IN /\ Len(notes) = 1
             /\ notes[1].type = "kFixedInfCol"
             /\ notes[1].sign = Sign(last.arg.val)]_vars

\* what fixColInfinity leaves of column c and of the rows: the bounds, the
\* infinity and huge flags, and every row activity
InfinityFixFrame(p, p2, c) ==
    /\ p2.lbs = p.lbs
    /\ p2.ubs = p.ubs
    /\ p2.cflags[c] \ {"Fixed"} = p.cflags[c]
    /\ p2.activities = p.activities

\* C27: fixColInfinity(c, v) returns Unchanged and changes nothing if c is
\* Substituted or Fixed or v = 0; otherwise it returns Reduced, sets
\* Fixed, appends c to deletedCols, increments ndeletedcols, decrements
\* the integral or continuous count, sets BoundsModified in colState[c],
\* and leaves the bounds, the infinity and huge flags of c and every row
\* activity unchanged
C27_FixColInfinityContract ==
    [][last'.op = "fixColInfinity" =>
          LET c == last'.arg.col
              isint == "Integral" \in problem.cflags[c]
          IN IF \/ Test(problem.cflags[c], kInactive)
                \/ last'.arg.val = 0
             THEN last'.result = "kUnchanged" /\ UNCHANGED core
             ELSE /\ last'.result = "kReduced"
                  /\ "Fixed" \in problem'.cflags[c]
                  /\ update'.deleted_cols = Append(update.deleted_cols, c)
                  /\ stats'.ndeletedcols = stats.ndeletedcols + 1
                  /\ problem'.nintcols
                        = problem.nintcols - (IF isint THEN 1 ELSE 0)
                  /\ problem'.ncontcols
                        = problem.ncontcols - (IF isint THEN 0 ELSE 1)
                  /\ "BoundsModified" \in update'.col_state[c]
                  /\ InfinityFixFrame(problem, problem', c)]_vars

\* ------------------------------------------------------------------------
\* removeSingletonRow called on the rows of a problem whose first row is a
\* singleton a * x0 with every kind of sides and whose second row has two
\* entries
\* ------------------------------------------------------------------------

SingletonSides == {-2 * Unit, 0, 2 * Unit, 4 * Unit}

\* row 0: lhs <= a * x0 <= rhs with the sides as rf0 says; row 1:
\* x0 + x1 <= 10.0; x0 in [0.0, 2.0], x1 in [0.0, 1.0]
SingletonRowProblem(a, lhs0, rhs0, rf0) ==
    MkProblem(<<0, 0>>, <<2 * Unit, Unit>>, <<{}, {}>>, <<1, 1>>,
              <<lhs0, 0>>, <<rhs0, 10 * Unit>>, <<rf0, {"LhsInf"}>>,
              <<<<a, 0>>, <<1, 1>>>>)

SingletonRowProblems ==
    {SingletonRowProblem(a, l, r, rf) :
        a \in {1, 2, -1, -2}, l \in SingletonSides, r \in SingletonSides,
        rf \in {{"Equation"}, {}, {"LhsInf"}, {"RhsInf"}}}

InitSingletonRow ==
    /\ inst = "R"
    /\ problem \in {p \in SingletonRowProblems :
                       /\ p.lhs[0] <= p.rhs[0]
                       /\ "Equation" \in p.rflags[0] => p.lhs[0] = p.rhs[0]
                       /\ "LhsInf" \in p.rflags[0] => p.lhs[0] = 0
                       /\ "RhsInf" \in p.rflags[0] => p.rhs[0] = 0}
    /\ update = NewUpdate(problem.nrows, problem.ncols)
    /\ stats = NewStatistics
    /\ postsolve = <<>>
    /\ phase = "constructed"
    /\ last = Called("ProblemUpdate", 0, ConflictView(update), "none", <<>>)
    /\ ncalls = 0

RemoveSingletonRow ==
    /\ phase \in {"constructed", "running"}
    /\ ncalls < MaxCalls
    /\ \E r \in Rows :
          Returned("removeSingletonRow", r, removeSingletonRow(Cur, r))
    /\ ncalls' = ncalls + 1
    /\ UNCHANGED inst

NextSingletonRow ==
    \/ RemoveSingletonRow
    \/ ChangeLB
    \/ ChangeUB

SpecSingletonRow == InitSingletonRow /\ [][NextSingletonRow]_vars

\* the bound calls the claim prescribes for the singleton row with entry
\* (c, v), in their order: each a record of the mutator and its value
SingletonBoundCalls(p, row, c, v) ==
    LET rf == p.rflags[row]
        fromlhs == IF "LhsInf" \in rf THEN <<>>
                   ELSE <<[op |-> IF v > 0 THEN "changeLB" ELSE "changeUB",
                           val |-> Quot(p.lhs[row], v)]>>
        fromrhs == IF "RhsInf" \in rf THEN <<>>
                   ELSE <<[op |-> IF v > 0 THEN "changeUB" ELSE "changeLB",
                           val |-> Quot(p.rhs[row], v)]>>
    IN IF "Equation" \in rf
       THEN <<[op |-> "fixCol", val |-> Quot(p.rhs[row], v)]>>
       ELSE fromlhs \o fromrhs

\* the calls of the sequence made one after the other on column c, the
\* ones after a call that returned Infeasible being skipped
RECURSIVE BoundCallsMade(_, _, _)
BoundCallsMade(r, c, calls) ==
    IF calls = <<>> \/ r.status = "kInfeasible" THEN r
    ELSE LET call == Head(calls)
             made == IF call.op = "fixCol" THEN fixCol(r.s, c, call.val)
                     ELSE IF call.op = "changeLB" THEN changeLB(r.s, c, call.val)
                     ELSE changeUB(r.s, c, call.val)
         IN BoundCallsMade(made, c, Tail(calls))

\* the state s2 is the state s
SameState(p2, u2, st2, tr2, s) ==
    /\ p2 = s.problem
    /\ u2 = s.update
    /\ st2 = s.stats
    /\ tr2 = s.postsolve

\* C28: removeSingletonRow(r) returns Unchanged and changes nothing when
\* rowSize[r] # 1 or r is redundant; otherwise, with the unique entry
\* (c, v), an Equation calls fixCol(c, rhs / v), v > 0 turns a finite lhs
\* into changeLB(c, lhs / v) and a finite rhs into changeUB(c, rhs / v),
\* v < 0 turns a finite lhs into changeUB(c, lhs / v) and a finite rhs into
\* changeLB(c, rhs / v), the second call being skipped when the first
\* returned Infeasible; afterwards row r is marked redundant, and the call
\* returns Infeasible whenever one of the bound calls returned Infeasible
C28_RemoveSingletonRowContract ==
    [][last'.op = "removeSingletonRow" =>
          LET row == last'.arg
              c == RowCols(problem, row)[1]
              v == problem.coef[row][c]
              made == BoundCallsMade(Ret(Cur, "kUnchanged"), c,
                                     SingletonBoundCalls(problem, row, c, v))
          IN IF problem.rowsize[row] # 1 \/ "Redundant" \in problem.rflags[row]
             THEN last'.result = "kUnchanged" /\ UNCHANGED core
             ELSE /\ SameState(problem', update', stats', postsolve',
                               markRowRedundant(made.s, row))
                  /\ "Redundant" \in problem'.rflags[row]
                  /\ (last'.result = "kInfeasible")
                        = (made.status = "kInfeasible")]_vars

\* removeSingletonRow has turned a ranged row with a negative coefficient
\* into a new upper bound (from lhs) and a new lower bound (from rhs) of
\* its column and has marked the row redundant
C28_NegativeRangedRowSeen ==
    /\ last.op = "removeSingletonRow"
    /\ last.arg = 0
    /\ problem.coef[0][0] = -2
    /\ problem.rflags[0] = {"Redundant"}
    /\ problem.lhs[0] = -2 * Unit
    /\ problem.rhs[0] = 0
    /\ problem.lbs[0] = 0
    /\ problem.ubs[0] = Unit
    /\ update.redundant_rows = <<0>>

\* removeSingletonRow has stopped after the first bound call returned
\* Infeasible: the row is redundant and the bound from rhs was not applied
C28_InfeasibleFirstCallSeen ==
    /\ last.op = "removeSingletonRow"
    /\ last.result = "kInfeasible"
    /\ problem.rflags[0] = {"Redundant"}
    /\ problem.coef[0][0] = 1
    /\ problem.lhs[0] = 4 * Unit
    /\ problem.ubs[0] = 2 * Unit

\* ------------------------------------------------------------------------
\* Dual fixing under each setting of dualreds: the column step of
\* trivialPresolve on two columns of every kind of domain and objective
\* sign that share one row
\* ------------------------------------------------------------------------

\* [0, 2], (-oo, 2], [0, +oo) and the free domain
DualRedsDomains ==
    {[lb |-> 0, ub |-> 2 * Unit, flags |-> {}],
     [lb |-> 0, ub |-> 2 * Unit, flags |-> {"LbInf"}],
     [lb |-> 0, ub |-> 0, flags |-> {"UbInf"}],
     [lb |-> 0, ub |-> 0, flags |-> {"LbInf", "UbInf"}]}

\* the row of the family: its flags and its coefficients; the finite sides
\* are 1.0
DualRedsRows ==
    [flags : {{"LhsInf"}, {"RhsInf"}, {"Equation"}},
     coefs : {<<1, 1>>, <<1, -1>>, <<0, 1>>, <<-1, 0>>}]

DualRedsProblem(d0, d1, obj0, obj1, r0) ==
    MkProblem(<<d0.lb, d1.lb>>, <<d0.ub, d1.ub>>, <<d0.flags, d1.flags>>,
              <<obj0, obj1>>,
              <<IF "LhsInf" \in r0.flags THEN 0 ELSE Unit>>,
              <<IF "RhsInf" \in r0.flags THEN 0 ELSE Unit>>,
              <<r0.flags>>, <<r0.coefs>>)

DualRedsProblems ==
    {DualRedsProblem(d0, d1, obj0, obj1, r0) :
        d0 \in DualRedsDomains, d1 \in DualRedsDomains,
        obj0 \in {-1, 0, 1}, obj1 \in {-1, 0, 1}, r0 \in DualRedsRows}

\* instances N, G and F run with dualreds = 0, 1 and 2
InitDualReds ==
    /\ inst \in {"N", "G", "F"}
    /\ problem \in DualRedsProblems
    /\ update = NewUpdate(problem.nrows, problem.ncols)
    /\ stats = NewStatistics
    /\ postsolve = <<>>
    /\ phase = "constructed"
    /\ last = Called("ProblemUpdate", 0, ConflictView(update), "none", <<>>)
    /\ ncalls = 0

\* the first step of trivialPresolve: the locks are recomputed if dual
\* reductions are on, then trivialColumnPresolve runs; the rest of that
\* trivialPresolve is not followed from the state it leaves
TrivialColumnPresolve ==
    /\ phase = "constructed"
    /\ LET s == Cur
           r == trivialColumnPresolve(
                    IF s.options.dualreds # 0
                    THEN [s EXCEPT !.problem = recomputeLocks(@)]
                    ELSE s)
       IN /\ r.s.valid
          /\ Install(r.s)
          /\ phase' = "columns"
          /\ last' = Called("trivialColumnPresolve", 0, ConflictView(update),
                            r.status, <<>>)
    /\ UNCHANGED <<inst, ncalls>>

NextDualReds ==
    \/ TrivialColumnPresolve
    \/ TrivialPresolve

SpecDualReds == InitDualReds /\ [][NextDualReds]_vars

\* dual fixing is enabled for a column with objective coefficient obj
DualFixEnabled(dualreds, obj) ==
    \/ dualreds = 2
    \/ dualreds = 1 /\ obj # 0

\* column c of p is active and not fixed by its bounds
OpenColumn(p, c) ==
    /\ ~Test(p.cflags[c], kInactive)
    /\ Test(p.cflags[c], kUnbounded) \/ p.lbs[c] < p.ubs[c]

\* column c went from p to p2 by ub := lb and the Fixed flag
FixedDown(p, p2, c) ==
    /\ p2.lbs[c] = p.lbs[c]
    /\ p2.ubs[c] = p.lbs[c]
    /\ p2.cflags[c] = (p.cflags[c] \ {"UbInf"}) \cup {"Fixed"}

\* column c went from p to p2 by lb := ub and the Fixed flag
FixedUp(p, p2, c) ==
    /\ p2.ubs[c] = p.ubs[c]
    /\ p2.lbs[c] = p.ubs[c]
    /\ p2.cflags[c] = (p.cflags[c] \ {"LbInf"}) \cup {"Fixed"}

\* column c is in p2 as it was in p
ColumnKept(p, p2, c) ==
    /\ p2.lbs[c] = p.lbs[c]
    /\ p2.ubs[c] = p.ubs[c]
    /\ p2.cflags[c] = p.cflags[c]

\* what the claim says of an open column c whose locks are lk, given
\* whether the upward case applies to it (up), when the column step went
\* from p to p2 and returned result
DualFixed(p, p2, lk, dualreds, result, c, up) ==
    LET on == DualFixEnabled(dualreds, p.obj[c])
        down == on /\ lk.down = 0 /\ p.obj[c] >= 0
    IN /\ ~on => ColumnKept(p, p2, c)
       /\ (down /\ "LbInf" \notin p.cflags[c] /\ ~Stops(result))
             => FixedDown(p, p2, c)
       /\ (down /\ "LbInf" \in p.cflags[c] /\ p.obj[c] > 0)
             => result = "kUnbndOrInfeas"
       /\ (on /\ up /\ "UbInf" \notin p.cflags[c] /\ ~Stops(result))
             => FixedUp(p, p2, c)
       /\ (on /\ up /\ "UbInf" \in p.cflags[c] /\ p.obj[c] < 0)
             => result = "kUnbndOrInfeas"
       /\ (p.obj[c] > 0 /\ lk.down # 0) \/ (p.obj[c] < 0 /\ lk.up # 0)
             => ColumnKept(p, p2, c)

\* C29 as stated: dual fixing in trivialColumnPresolve is applied to a
\* column only when enabled (dualreds = 0 never, 1 only if obj[c] # 0, 2
\* always); if locks[c].down = 0 and obj[c] >= 0, a finite lb gives
\* ub[c] := lb[c] and Fixed, an infinite lb with obj[c] > 0 gives
\* UnbndOrInfeas; symmetrically if locks[c].up = 0 and obj[c] <= 0,
\* lb[c] := ub[c] and Fixed, or UnbndOrInfeas when ub is infinite and
\* obj[c] < 0; a column with a nonzero lock in the direction its objective
\* favours is never dual-fixed
C29_DualFixBothDirections ==
    [][last'.op = "trivialColumnPresolve" =>
          \A c \in Cols :
             OpenColumn(problem, c) =>
                DualFixed(problem, problem', problem'.locks[c],
                          InstanceOptions(inst).dualreds, last'.result, c,
                          problem'.locks[c].up = 0 /\ problem.obj[c] <= 0)]_vars

\* C29 amended: as C29_DualFixBothDirections, but the downward case is
\* tried first: the upward case (lb[c] := ub[c] and Fixed, or
\* UnbndOrInfeas) applies if locks[c].up = 0 and obj[c] <= 0 and the
\* downward case has not fixed the column, that is unless
\* locks[c].down = 0, obj[c] = 0 and lb[c] is finite
C29_DualFixDownFirst ==
    [][last'.op = "trivialColumnPresolve" =>
          \A c \in Cols :
             OpenColumn(problem, c) =>
                DualFixed(problem, problem', problem'.locks[c],
                          InstanceOptions(inst).dualreds, last'.result, c,
                          /\ problem'.locks[c].up = 0
                          /\ problem.obj[c] <= 0
                          /\ ~(/\ problem'.locks[c].down = 0
                               /\ problem.obj[c] = 0
                               /\ "LbInf" \notin problem.cflags[c]))]_vars

\* the column step has fixed a column without locks and with objective
\* coefficient 0 at its lower bound although no up-lock holds it either
C29_UnlockedColumnFixedDownSeen ==
    /\ last.op = "trivialColumnPresolve"
    /\ inst = "F"
    /\ problem.locks[0] = [down |-> 0, up |-> 0]
    /\ problem.obj[0] = 0
    /\ problem.cflags[0] = {"Fixed"}
    /\ problem.lbs[0] = 0
    /\ problem.ubs[0] = 0
    /\ update.deleted_cols[1] = 0

\* ------------------------------------------------------------------------
\* Empty columns: a column x0 of every kind of domain and objective sign
\* and a free column x1 share one equation; once the row is marked
\* redundant a flush empties both columns.  The flush is followed in two
\* steps, up to the call of removeEmptyColumns and that call
\* ------------------------------------------------------------------------

\* [0, 2], [1, 2], [-2, -1], (-oo, 2], [0, +oo) and the free domain
EmptyColDomains ==
    {[lb |-> 0, ub |-> 2 * Unit, flags |-> {}],
     [lb |-> Unit, ub |-> 2 * Unit, flags |-> {}],
     [lb |-> -2 * Unit, ub |-> -Unit, flags |-> {}],
     [lb |-> 0, ub |-> 2 * Unit, flags |-> {"LbInf"}],
     [lb |-> 0, ub |-> 0, flags |-> {"UbInf"}],
     [lb |-> 0, ub |-> 0, flags |-> {"LbInf", "UbInf"}]}

\* x0 + x1 = 1.0 with x1 free
EmptyColProblem(d0, obj0, obj1) ==
    MkProblem(<<d0.lb, 0>>, <<d0.ub, 0>>, <<d0.flags, {"LbInf", "UbInf"}>>,
              <<obj0, obj1>>, <<Unit>>, <<Unit>>, <<{"Equation"}>>,
              <<<<1, 1>>>>)

EmptyColProblems ==
    {EmptyColProblem(d0, obj0, obj1) :
        d0 \in EmptyColDomains, obj0 \in {-1, 0, 1}, obj1 \in {0, 1}}

InitEmptyCols ==
    /\ inst \in {"N", "G", "F"}
    /\ problem \in EmptyColProblems
    /\ update = NewUpdate(problem.nrows, problem.ncols)
    /\ stats = NewStatistics
    /\ postsolve = <<>>
    /\ phase = "constructed"
    /\ last = Called("ProblemUpdate", 0, ConflictView(update), "none", <<>>)
    /\ ncalls = 0

\* flush up to the call of removeEmptyColumns
flushBeforeEmptyColumns(s) ==
    LET columns(r) ==
            IF r.status = "kInfeasible" THEN r
            ELSE Ret(compactSingletonColumns(
                         deleteRowsAndCols(removeFixedCols(r.s))), r.status)
        activities(r) == IF r.status = "kInfeasible" THEN r
                         ELSE columns(flushChangedActivities(r.s))
    IN activities(flushSingletonRows(flushChangedCoeffs(s)))

\* flush has been entered and stands before removeEmptyColumns, or has
\* returned Infeasible
FlushBeforeEmptyColumns ==
    /\ phase = "running"
    /\ ncalls < MaxCalls
    /\ LET r == flushBeforeEmptyColumns(Cur)
       IN /\ r.s.valid
          /\ Install(r.s)
          /\ phase' = IF Stops(r.status) THEN "stopped" ELSE "emptycolumns"
          /\ last' = Called("flushBeforeEmptyColumns", 0, ConflictView(update),
                            r.status, <<>>)
    /\ ncalls' = ncalls + 1
    /\ UNCHANGED inst

\* the call of removeEmptyColumns that ends the flush; the result is the
\* one of removeEmptyColumns
RemoveEmptyColumns ==
    /\ phase = "emptycolumns"
    /\ Returned("removeEmptyColumns", 0, removeEmptyColumns(Cur))
    /\ UNCHANGED <<inst, ncalls>>

NextEmptyCols ==
    \/ TrivialPresolve
    \/ MarkRowRedundant
    \/ FlushBeforeEmptyColumns
    \/ RemoveEmptyColumns

SpecEmptyCols == InitEmptyCols /\ [][NextEmptyCols]_vars

\* the optimal value of an empty column inside its bounds: with objective
\* 0 the point of the domain nearest to 0, else the bound the objective
\* pushes towards
EmptyColValue(p, c) ==
    LET cf == p.cflags[c]
    IN IF p.obj[c] > 0 THEN p.lbs[c]
       ELSE IF p.obj[c] < 0 THEN p.ubs[c]
       ELSE IF "LbInf" \notin cf /\ p.lbs[c] > 0 THEN p.lbs[c]
       ELSE IF "UbInf" \notin cf /\ p.ubs[c] < 0 THEN p.ubs[c]
       ELSE 0

\* the bound of column c in the direction that improves the objective is
\* infinite
EmptyColUnbounded(p, c) ==
    \/ p.obj[c] > 0 /\ "LbInf" \in p.cflags[c]
    \/ p.obj[c] < 0 /\ "UbInf" \in p.cflags[c]

\* value v lies within the bounds of column c
WithinBounds(p, c, v) ==
    /\ "LbInf" \in p.cflags[c] \/ p.lbs[c] <= v
    /\ "UbInf" \in p.cflags[c] \/ v <= p.ubs[c]

\* the objective constant of fixing the columns of cols at their values
RECURSIVE EmptyColOffset(_, _)
EmptyColOffset(p, cols) ==
    IF cols = <<>> THEN 0
    ELSE p.obj[Head(cols)] * EmptyColValue(p, Head(cols))
            + EmptyColOffset(p, Tail(cols))

\* removeEmptyColumns went from (p, u, st, trail) to (p2, u2, st2, trail2)
\* with result, fixing the columns of the sequence cols and no others
EmptyColsRemoved(p, u, st, trail, p2, u2, st2, trail2, result, cols) ==
    IF \E i \in DOMAIN cols : EmptyColUnbounded(p, cols[i])
    THEN result = "kUnbndOrInfeas"
    ELSE /\ trail2 = trail \o
               [i \in DOMAIN cols |->
                   [type |-> "kFixedCol", col |-> cols[i],
                    val |-> EmptyColValue(p, cols[i])]]
         /\ \A i \in DOMAIN cols :
               /\ WithinBounds(p, cols[i], EmptyColValue(p, cols[i]))
               /\ p2.obj[cols[i]] = 0
               /\ "Fixed" \in p2.cflags[cols[i]]
               /\ p2.colsize[cols[i]] = -1
         /\ \A c \in 0..(p.ncols - 1) :
               (\A i \in DOMAIN cols : cols[i] # c) =>
                  /\ p2.obj[c] = p.obj[c]
                  /\ p2.cflags[c] = p.cflags[c]
         /\ p2.offset = p.offset + EmptyColOffset(p, cols)
         /\ st2.ndeletedcols = st.ndeletedcols + Len(cols)
         /\ u2.emptyColumns = <<>>
         /\ p2.lbs = p.lbs /\ p2.ubs = p.ubs

\* C30 as stated: removeEmptyColumns, when dual reductions are enabled,
\* fixes every active column of size 0 in emptyColumns to an optimal value
\* inside its bounds (objective 0: 0 if the bounds include it, else the
\* bound nearest to 0; objective > 0: the lower bound; objective < 0: the
\* upper bound) and returns UnbndOrInfeas if the bound in the improving
\* direction is infinite; each fix appends notifyFixedCol(c, value), adds
\* obj[c] * value to the offset, zeroes obj[c], sets Fixed and colSize = -1
\* and increments ndeletedcols; afterwards emptyColumns is empty; with
\* dualReds = 0 nothing is changed and Unchanged is returned
C30_EmptyColumnsFixed ==
    [][last'.op = "removeEmptyColumns" =>
          IF InstanceOptions(inst).dualreds = 0
          THEN last'.result = "kUnchanged" /\ UNCHANGED core
          ELSE EmptyColsRemoved(
                   problem, update, stats, postsolve,
                   problem', update', stats', postsolve', last'.result,
                   SelectSeq(update.emptyColumns,
                             LAMBDA c : /\ problem.colsize[c] = 0
                                        /\ ~Test(problem.cflags[c], kInactive)))]_vars

\* C30 amended: as C30_EmptyColumnsFixed, but with dualReds = 1 only the
\* empty columns with a nonzero objective coefficient are fixed; one with
\* objective coefficient 0 keeps its flags and colSize = 0 and is dropped
\* from emptyColumns unfixed
C30_EmptyColumnsFixedIfEnabled ==
    [][last'.op = "removeEmptyColumns" =>
          IF InstanceOptions(inst).dualreds = 0
          THEN last'.result = "kUnchanged" /\ UNCHANGED core
          ELSE /\ EmptyColsRemoved(
                      problem, update, stats, postsolve,
                      problem', update', stats', postsolve', last'.result,
                      SelectSeq(update.emptyColumns,
                                LAMBDA c :
                                   /\ problem.colsize[c] = 0
                                   /\ ~Test(problem.cflags[c], kInactive)
                                   /\ DualFixEnabled(
                                          InstanceOptions(inst).dualreds,
                                          problem.obj[c])))
               /\ \A c \in Cols :
                     (/\ InstanceOptions(inst).dualreds = 1
                      /\ problem.obj[c] = 0
                      /\ ~Stops(last'.result))
                        => problem'.colsize[c] = problem.colsize[c]]_vars

\* with dualreds = 1 removeEmptyColumns has fixed the empty column x0 with
\* objective coefficient -1 at its upper bound 2.0 and has left the empty
\* column x1 with objective coefficient 0 unfixed
C30_ZeroObjectiveLeftSeen ==
    /\ last.op = "removeEmptyColumns"
    /\ inst = "G"
    /\ last.result = "kReduced"
    /\ postsolve = <<[type |-> "kFixedCol", col |-> 0, val |-> 2 * Unit]>>
    /\ problem.offset = -2 * Unit
    /\ problem.cflags[0] = {"Fixed"}
    /\ problem.colsize = (0 :> -1 @@ 1 :> 0)
    /\ problem.cflags[1] = {"LbInf", "UbInf"}
    /\ update.emptyColumns = <<>>

\* ------------------------------------------------------------------------
\* Claims about the worklists, compress and the state flags
\* ------------------------------------------------------------------------

\* transactions, flush, clearChangeInfo, clearStates and compress in any
\* order after the trivial presolve
NextLists ==
    \/ TrivialPresolve
    \/ ApplyTransaction
    \/ Flush
    \/ ClearChangeInfo
    \/ ClearStates
    \/ Compress

InitLists ==
    /\ inst \in Instances \cup {"K"}
    /\ problem = InstanceProblem(inst)
    /\ update = NewUpdate(problem.nrows, problem.ncols)
    /\ stats = NewStatistics
    /\ postsolve = <<>>
    /\ phase = "constructed"
    /\ last = Called("ProblemUpdate", 0, ConflictView(update), "none", <<>>)
    /\ ncalls = 0

SpecLists == InitLists /\ [][NextLists]_vars

\* the entries of the list cols whose column has size 1 in p, in their order
StillSingleton(p, cols) == SelectSeq(cols, LAMBDA c : p.colsize[c] = 1)

\* the list (cols2, first2) is the list (cols, first) without the entries
\* that are no singleton columns of p2, with the split between the old and
\* the new entries where it was; entries pushed meanwhile follow at the end
CompactedWithSplit(p2, cols, first, cols2, first2) ==
    LET old == StillSingleton(p2, SubSeq(cols, 1, first))
        new == StillSingleton(p2, SubSeq(cols, first + 1, Len(cols)))
    IN /\ first2 = Len(old)
       /\ Len(cols2) >= Len(old) + Len(new)
       /\ SubSeq(cols2, 1, Len(old) + Len(new)) = old \o new
       /\ \A i \in DOMAIN cols2 : p2.colsize[cols2[i]] = 1

\* C31: the compaction of singletonColumns in flush removes exactly the
\* entries whose colsize is not 1, keeps the order of the others and keeps
\* the split (a surviving entry that was before firstNewSingletonCol is
\* still before it, one that was at or after it is still at or after it);
\* and 0 <= firstNewSingletonCol <= |singletonColumns| in every state
C31_SingletonColumnsSplit ==
    [][/\ (last'.op = "flush" /\ last'.result # "kInfeasible")
             => CompactedWithSplit(problem', update.singletonColumns,
                                   update.firstNewSingletonCol,
                                   update'.singletonColumns,
                                   update'.firstNewSingletonCol)
       /\ 0 <= update'.firstNewSingletonCol
       /\ update'.firstNewSingletonCol <= Len(update'.singletonColumns)]_vars

\* a flush has returned with one entry of singletonColumns before the
\* split and one after it while a column has lost its entries or was deleted
C31_SplitMovedSeen ==
    /\ last.op = "flush"
    /\ last.result # "kInfeasible"
    /\ update.firstNewSingletonCol = 1
    /\ Len(update.singletonColumns) = 2
    /\ \E c \in Cols : problem.colsize[c] < 1

\* a problem of nc columns and nr rows: row r is x_r + x_(r+1) <= 1.0 over
\* the columns there are, so that the rows past the last column are empty;
\* every column ranges over [0, 1.0]
CompressProblem(nc, nr) ==
    MkProblem([c \in 1..nc |-> 0],
              [c \in 1..nc |-> Unit],
              [c \in 1..nc |-> {}], [c \in 1..nc |-> 0],
              [r \in 1..nr |-> 0], [r \in 1..nr |-> Unit],
              [r \in 1..nr |-> {"LhsInf"}],
              [r \in 1..nr |->
                  [c \in 1..nc |-> IF c = r \/ c = r + 1 THEN 1 ELSE 0]])

\* the dimensions: a small one, and one more than CompressMinDim columns or
\* rows
CompressDims ==
    {[nc |-> 6, nr |-> 6],
     [nc |-> CompressMinDim + 1, nr |-> 6],
     [nc |-> 6, nr |-> CompressMinDim + 1]}

CompressProblems == {CompressProblem(d.nc, d.nr) : d \in CompressDims}

\* instances W run with compressfac = 0.999, instances Z with
\* compressfac = 0; the caller goes on without the trivial presolve
InitCompress ==
    /\ inst \in {"W", "Z"}
    /\ problem \in CompressProblems
    /\ update = NewUpdate(problem.nrows, problem.ncols)
    /\ stats = NewStatistics
    /\ postsolve = <<>>
    /\ phase = "running"
    /\ last = Called("ProblemUpdate", 0, ConflictView(update), "none", <<>>)
    /\ ncalls = 0

NextCompress ==
    \/ ApplyTransaction
    \/ Flush
    \/ ClearStates
    \/ Compress
    \/ ClearChangeInfo

SpecCompress == InitCompress /\ [][NextCompress]_vars

\* compress has renumbered the problem or taken note of the deletions
CompressRan(p, u, p2, u2) ==
    \/ p2.ncols # p.ncols
    \/ p2.nrows # p.nrows
    \/ u2.lastcompress_ndelrows # u.lastcompress_ndelrows
    \/ u2.lastcompress_ndelcols # u.lastcompress_ndelcols

\* fewer than the fraction fac of the n rows or columns are active
BelowFraction(active, n, fac) == active * fac.den < n * fac.num

\* C32 as stated: clearStates triggers compress if and only if compressfac
\* is not 0, at least one of the two dimensions exceeds 100 and the live
\* fraction of rows or of columns is below compressfac; compress itself
\* changes nothing when nothing was deleted since the last compress and
\* full = false
C32_CompressIffEitherFraction ==
    [][/\ last'.op = "clearStates" =>
             (CompressRan(problem, update, problem', update')
                <=> LET fac == InstanceOptions(inst).compressfac
                    IN /\ fac.num # 0
                       /\ \/ problem.ncols > CompressMinDim
                          \/ problem.nrows > CompressMinDim
                       /\ \/ BelowFraction(Cardinality(ActiveCols), problem.ncols, fac)
                          \/ BelowFraction(Cardinality(ActiveRows), problem.nrows, fac))
       /\ (/\ last'.op = "compress"
           /\ last'.arg = 0
           /\ stats.ndeletedrows = update.lastcompress_ndelrows
           /\ stats.ndeletedcols = update.lastcompress_ndelcols)
             => UNCHANGED core]_vars

\* C32 amended: clearStates triggers compress if and only if compressfac
\* is not 0 and either there are more than 100 columns and the live
\* fraction of the columns is below compressfac, or there are more than
\* 100 rows and the live fraction of the rows is below compressfac;
\* compress itself changes nothing when nothing was deleted since the last
\* compress and full = false
C32_CompressIffFractionOfLargeDimension ==
    [][/\ last'.op = "clearStates" =>
             (CompressRan(problem, update, problem', update')
                <=> LET fac == InstanceOptions(inst).compressfac
                    IN /\ fac.num # 0
                       /\ \/ /\ problem.ncols > CompressMinDim
                             /\ BelowFraction(Cardinality(ActiveCols), problem.ncols, fac)
                          \/ /\ problem.nrows > CompressMinDim
                             /\ BelowFraction(Cardinality(ActiveRows), problem.nrows, fac))
       /\ (/\ last'.op = "compress"
           /\ last'.arg = 0
           /\ stats.ndeletedrows = update.lastcompress_ndelrows
           /\ stats.ndeletedcols = update.lastcompress_ndelcols)
             => UNCHANGED core]_vars

\* clearStates has compressed a problem of 101 columns of which one was
\* deleted
C32_LargeDimensionCompressedSeen ==
    /\ last.op = "clearStates"
    /\ inst = "W"
    /\ problem.ncols = CompressMinDim
    /\ stats.ndeletedcols = 1
    /\ update.lastcompress_ndelcols = 1

\* clearStates has left a problem of 101 columns, all of them active, and
\* 6 rows, of which one is deleted, as it was
C32_SmallDimensionNotCompressedSeen ==
    /\ last.op = "clearStates"
    /\ inst = "W"
    /\ problem.ncols = CompressMinDim + 1
    /\ stats.ndeletedcols = 0
    /\ problem.nrows = 6
    /\ stats.ndeletedrows = 1
    /\ problem.rowsize[0] = -1
    /\ update.lastcompress_ndelrows = 0

\* ------------------------------------------------------------------------
\* The tasks of compress.  tbb::parallel_invoke runs them in any order and
\* side by side; a task with one statement is one step, the task of
\* singletonColumns is a step for each of its three statements, and
\* last holds what the call keeps on its stack: the mappings, the tasks
\* still to finish, the position inside the task of singletonColumns and
\* its local numNewSingletonCols
\* ------------------------------------------------------------------------

\* the indices an observer registered with observeCompress holds: every
\* row, and every column from the last to the first
TaskObservers(p) ==
    {[rows |-> [i \in 1..p.nrows |-> i - 1], cols |-> Shuffled(p.ncols)]}

\* the permutations the shuffles of the constructor may leave: the reversed
\* order, the order as it was and a rotation
TaskPerms(n) ==
    {Shuffled(n), [i \in 1..n |-> i - 1], [i \in 1..n |-> i % n]}

InitTasks ==
    /\ inst \in Instances \cup {"K"}
    /\ problem = InstanceProblem(inst)
    /\ \E rowperm \in TaskPerms(problem.nrows) :
          \E colperm \in TaskPerms(problem.ncols) :
             update = [NewUpdate(problem.nrows, problem.ncols)
                          EXCEPT !.random_row_perm = rowperm,
                                 !.random_col_perm = colperm]
    /\ stats = NewStatistics
    /\ postsolve = <<>>
    /\ phase = "constructed"
    /\ last = Called("ProblemUpdate", 0, ConflictView(update), "none", <<>>)
    /\ ncalls = 0

ObserveCompress ==
    /\ phase = "constructed"
    /\ update.compress_observers = <<>>
    /\ \E o \in TaskObservers(problem) :
          update' = [update EXCEPT !.compress_observers = Append(@, o)]
    /\ last' = Called("observeCompress", 0, ConflictView(update), "none", <<>>)
    /\ UNCHANGED <<problem, stats, postsolve, inst, phase, ncalls>>

\* compress up to tbb::parallel_invoke, or the early return
CompressBegin ==
    /\ phase = "running"
    /\ ncalls < MaxCalls
    /\ \E full \in BOOLEAN :
          IF /\ problem.ncols = getNActiveCols(Cur)
             /\ problem.nrows = getNActiveRows(Cur)
             /\ ~full
          THEN /\ UNCHANGED <<core, phase>>
               /\ last' = Called("compress", 0, ConflictView(update), "none", <<>>)
          ELSE /\ compressBegin(Cur).valid
               /\ Install(compressBegin(Cur))
               /\ phase' = "compressing"
               /\ last' = [op |-> "compress", arg |-> IF full THEN 1 ELSE 0,
                           before |-> ConflictView(update), result |-> "none",
                           trace |-> <<>>, start |-> Cur, full |-> full,
                           rowmap |-> CompressRowMap(problem),
                           colmap |-> CompressColMap(problem),
                           pending |-> Range(CompressTasks), pc |-> 0,
                           numNewSingletonCols |-> 0]
    /\ ncalls' = ncalls + 1
    /\ UNCHANGED inst

\* one of the tasks of a single statement runs
CompressTask ==
    /\ phase = "compressing"
    /\ \E task \in last.pending \ {"singletonColumns"} :
          /\ Install(compressTask(Cur, task, last.rowmap, last.colmap, last.full))
          /\ last' = [last EXCEPT !.pending = @ \ {task}]
    /\ UNCHANGED <<inst, phase, ncalls>>

\* the task of singletonColumns runs its next statement
CompressSingletonColumns ==
    /\ phase = "compressing"
    /\ "singletonColumns" \in last.pending
    /\ IF last.pc = 0
       THEN /\ last' = [last EXCEPT !.pc = 1,
                           !.numNewSingletonCols = singletonColumnsNumNew(Cur)]
            /\ UNCHANGED core
       ELSE IF last.pc = 1
       THEN /\ Install(singletonColumnsCompress(Cur, last.colmap))
            /\ last' = [last EXCEPT !.pc = 2]
       ELSE /\ Install(singletonColumnsSplit(Cur, last.numNewSingletonCols))
            /\ last' = [last EXCEPT !.pc = 3,
                           !.pending = @ \ {"singletonColumns"}]
    /\ UNCHANGED <<inst, phase, ncalls>>

\* every task has returned: compress takes note of the deletions and returns
CompressEnd ==
    /\ phase = "compressing"
    /\ last.pending = {}
    /\ Install(compressEnd(Cur))
    /\ phase' = "running"
    /\ last' = [last EXCEPT !.result = "returned"]
    /\ UNCHANGED <<inst, ncalls>>

NextTasks ==
    \/ ObserveCompress
    \/ TrivialPresolve
    \/ ClearStates
    \/ CompressBegin
    \/ CompressTask
    \/ CompressSingletonColumns
    \/ CompressEnd

SpecTasks == InitTasks /\ [][NextTasks]_vars

\* the entries of the list after are the new indices of the entries of the
\* list before that survive, and each of them is an index below n
Remapped(before, after, mapping, n) ==
    /\ Range(after) = {mapping[i] : i \in {j \in Range(before) : mapping[j] # -1}}
    /\ Len(after) = Cardinality({k \in DOMAIN before : mapping[before[k]] # -1})
    /\ \A i \in Range(after) : i >= 0 /\ i < n

\* C33: the tasks of compress write disjoint parts of the state, so that
\* whatever the order of their steps compress returns in the state the
\* tasks reach when they run one after the other; in that state the
\* entries of changed_activities, singletonRows, singletonColumns,
\* emptyColumns and of the two permutations are the new indices of the
\* surviving rows and columns they held, the deleted ones are dropped, and
\* getNActiveRows and getNActiveCols are the new dimensions
C33_CompressTasksCommute ==
    [][(phase = "compressing" /\ phase' = "running") =>
          LET b == last.start.update
              m == last.rowmap
              n == last.colmap
              ordered == compress(last.start, last.full)
          IN /\ problem' = ordered.problem
             /\ update' = ordered.update
             /\ stats' = ordered.stats
             /\ postsolve' = ordered.postsolve
             /\ Remapped(b.changed_activities, update'.changed_activities, m, problem'.nrows)
             /\ Remapped(b.singletonRows, update'.singletonRows, m, problem'.nrows)
             /\ Remapped(b.random_row_perm, update'.random_row_perm, m, problem'.nrows)
             /\ Remapped(b.singletonColumns, update'.singletonColumns, n, problem'.ncols)
             /\ Remapped(b.emptyColumns, update'.emptyColumns, n, problem'.ncols)
             /\ Remapped(b.random_col_perm, update'.random_col_perm, n, problem'.ncols)
             /\ \A r \in 0..(problem'.nrows - 1) : problem'.rowsize[r] # -1
             /\ \A c \in 0..(problem'.ncols - 1) : problem'.colsize[c] # -1
             /\ update'.firstNewSingletonCol >= 0
             /\ update'.firstNewSingletonCol <= Len(update'.singletonColumns)
             /\ problem'.nrows - stats'.ndeletedrows + update'.lastcompress_ndelrows
                  = problem'.nrows
             /\ problem'.ncols - stats'.ndeletedcols + update'.lastcompress_ndelcols
                  = problem'.ncols
             /\ problem'.nrows = Cardinality({r \in DOMAIN m : m[r] # -1})
             /\ problem'.ncols = Cardinality({c \in DOMAIN n : n[c] # -1})]_vars

\* compress has returned after it dropped two rows and a column: the three
\* singleton columns, the empty column and the row with a changed activity
\* are held under their new indices, and so is what the observer holds
C33_CompressedListsSeen ==
    /\ phase = "running"
    /\ last.op = "compress"
    /\ last.result = "returned"
    /\ last.start.problem.ncols = 5
    /\ problem.ncols = 4
    /\ problem.nrows = 1
    /\ update.singletonColumns = <<2, 0, 1>>
    /\ update.emptyColumns = <<3>>
    /\ update.changed_activities = <<0>>
    /\ Len(update.random_col_perm) = 4
    /\ Len(update.random_row_perm) = 1
    /\ update.compress_observers # <<>>
    /\ postsolve # <<>>

\* ------------------------------------------------------------------------
\* Claims about the assertions and the statuses
\* ------------------------------------------------------------------------

\* C34 as stated: no assertion on the FIXED_INFINITY path fails: a call
\* fixColInfinity(c, v) with v # 0 on a column that is neither Fixed nor
\* Substituted passes both assertions of the body, and it leaves the column
\* so that removeFixedCols, at the following flush, does not reach its
\* assertion lb[c] = ub[c] with unequal bounds
C34_NoAssertionFails ==
    [][last'.op = "fixColInfinity" =>
          /\ last'.result # "aborted"
          /\ last'.result = "kReduced" =>
                LET c == last'.arg.col
                IN \/ Test(problem'.cflags[c], {"LbInf", "UbInf"})
                   \/ problem'.lbs[c] = problem'.ubs[c]]_vars

\* two columns with lower bound 0 in one row  a0 x0 + a1 x1 <= 2.0
SurfaceProblem(u0, u1, obj0, obj1, a0, a1) ==
    MkProblem(<<0, 0>>, <<u0.ub, u1.ub>>, <<u0.flags, u1.flags>>,
              <<obj0, obj1>>, <<0>>, <<2 * Unit>>, <<{"LhsInf"}>>,
              <<<<a0, a1>>>>)

SurfaceDomains == {[ub |-> 0, flags |-> {"UbInf"}], [ub |-> Unit, flags |-> {}]}

SurfaceProblems ==
    {SurfaceProblem(u0, u1, obj0, obj1, a0, a1) :
        u0 \in SurfaceDomains, u1 \in SurfaceDomains,
        obj0 \in {-1, 0, 1}, obj1 \in {-1, 0, 1},
        a0 \in {-1, 1}, a1 \in {-1, 1}}

InitSurface ==
    /\ inst = "U"
    /\ problem \in SurfaceProblems
    /\ update = NewUpdate(problem.nrows, problem.ncols)
    /\ stats = NewStatistics
    /\ postsolve = <<>>
    /\ phase = "constructed"
    /\ last = Called("ProblemUpdate", 0, ConflictView(update), "none", <<>>)
    /\ ncalls = 0

NextSurface ==
    \/ TrivialPresolveAgain
    \/ ApplyTransaction

SpecSurface == InitSurface /\ [][NextSurface]_vars

\* C35 as stated: trivialPresolve returns Infeasible or UnbndOrInfeas
\* whenever one of its steps (the column presolve, the row presolve, the
\* removal of the singleton rows, the test of the changed activities, the
\* flush() it ends with) returns it, and then it returns that status
C35_TrivialPresolveReturnsDetectedStatus ==
    [][last'.op = "trivialPresolve" =>
          /\ last'.trace # <<>>
          /\ \A k \in DOMAIN last'.trace :
                Stops(last'.trace[k]) => last'.result = last'.trace[k]
          /\ Stops(last'.result) =>
                last'.result = last'.trace[Len(last'.trace)]]_vars

\* the flush() at the end of trivialPresolve has returned UnbndOrInfeas and
\* trivialPresolve has returned the status it held before that flush
C35_FlushStatusDroppedSeen ==
    /\ last.op = "trivialPresolve"
    /\ Len(last.trace) = 5
    /\ last.trace[5] = "kUnbndOrInfeas"
    /\ last.result # "kUnbndOrInfeas"

\* every index of flags whose state is not empty is in the dirty list,
\* once, and nothing else is
DirtyListExact(state, dirty) ==
    /\ Range(dirty) = {i \in DOMAIN state : state[i] # {}}
    /\ Cardinality(Range(dirty)) = Len(dirty)

\* C36: in every reachable state a column is in dirty_col_states if and
\* only if col_state[c] is not empty, and then once, and the same holds
\* for the rows; between two calls of clearStates state bits are only
\* added; after clearStates every row_state and col_state is empty and
\* both dirty lists are empty
C36_DirtyListsExact ==
    /\ [](/\ DirtyListExact(update.col_state, update.dirty_col_states)
          /\ DirtyListExact(update.row_state, update.dirty_row_states))
    /\ [][IF last'.op = "clearStates"
          THEN /\ \A c \in DOMAIN update'.col_state : update'.col_state[c] = {}
               /\ \A r \in DOMAIN update'.row_state : update'.row_state[r] = {}
               /\ update'.dirty_col_states = <<>>
               /\ update'.dirty_row_states = <<>>
          ELSE /\ \A c \in DOMAIN update'.col_state :
                     update.col_state[c] \subseteq update'.col_state[c]
               /\ \A r \in DOMAIN update'.row_state :
                     update.row_state[r] \subseteq update'.row_state[r]]_vars

\* clearStates has emptied the states of a row and of two columns, one of
\* which carried more than one bit
C36_StatesClearedSeen ==
    /\ last.op = "clearStates"
    /\ \E r \in DOMAIN last.before.row_state : last.before.row_state[r] # {}
    /\ \E c, d \in DOMAIN last.before.col_state :
          /\ c # d
          /\ Cardinality(last.before.col_state[c]) > 1
          /\ last.before.col_state[d] # {}
    /\ \A c \in DOMAIN update.col_state : update.col_state[c] = {}

\* ------------------------------------------------------------------------
\* Claims about the locks of a round
\* ------------------------------------------------------------------------

InitLocks ==
    /\ inst = "L"
    /\ problem = InstanceProblem(inst)
    /\ update = NewUpdate(problem.nrows, problem.ncols)
    /\ stats = NewStatistics
    /\ postsolve = <<>>
    /\ phase = "constructed"
    /\ last = Called("ProblemUpdate", 0, ConflictView(update), "none", <<>>)
    /\ ncalls = 0

NextLocks ==
    \/ TrivialPresolve
    \/ ApplyTransaction
    \/ Flush
    \/ ClearStates

SpecLocks == InitLocks /\ [][NextLocks]_vars

\* the entries an applyTransaction step has put into the matrix buffer
NewEntries == {update'.matrix_buffer[k] :
                  k \in {j \in DOMAIN update'.matrix_buffer :
                            j > Len(update.matrix_buffer)}}

\* the step leaves the coefficients, the sides and the flags of row r alone
RowUntouched(r) ==
    /\ problem'.coef[r] = problem.coef[r]
    /\ \A e \in NewEntries : e.row # r
    /\ problem'.lhs[r] = problem.lhs[r]
    /\ problem'.rhs[r] = problem.rhs[r]
    /\ problem'.rflags[r] = problem.rflags[r]

\* the step leaves the coefficients and the objective coefficient of
\* column c alone
ColUntouched(c) ==
    /\ \A r \in DOMAIN problem.coef : problem'.coef[r][c] = problem.coef[r][c]
    /\ \A e \in NewEntries : e.col # c
    /\ problem'.obj[c] = problem.obj[c]

\* C37 as stated: a row or column that carries Locked (set by a
\* LOCKED_STRONG record of a transaction applied earlier in the round) is
\* left alone by every transaction applied later in the round: no
\* coefficient, side or redundancy flag of the row changes, no coefficient
\* or objective coefficient of the column
C37_LockedNeverModified ==
    [][last'.op = "applyTransaction" =>
          /\ \A r \in DOMAIN update.row_state :
                "Locked" \in update.row_state[r] => RowUntouched(r)
          /\ \A c \in DOMAIN update.col_state :
                "Locked" \in update.col_state[c] => ColUntouched(c)]_vars

\* a row that carried Locked has been declared redundant by a transaction
\* that was applied
C37_LockedRowRedundantSeen ==
    /\ last.op = "applyTransaction"
    /\ last.result = "kApplied"
    /\ \E r \in DOMAIN last.before.row_state :
          /\ "Locked" \in last.before.row_state[r]
          /\ Catalog(inst)[last.arg] = <<Reduction(r, RowReduction.REDUNDANT, 0)>>
          /\ "Redundant" \in problem.rflags[r]

\* the verdict of the first record of tx, in sequence order, that the flags
\* of the view v make a Conflict or a Postpone
FirstVerdict(v, tx) ==
    LET verdict(k) == checkReductionConflict([update |-> v], tx[k])
        hits == {k \in DOMAIN tx : verdict(k) # "kNoConflict"}
    IN IF hits = {} THEN "kNoConflict"
       ELSE verdict(CHOOSE k \in hits : \A j \in hits : k <= j)

\* tx holds a LOCKED_STRONG record for a row or a column and a record that
\* modifies that row or column
LocksAndModifies(tx) ==
    \E i \in DOMAIN tx, j \in DOMAIN tx :
       \/ /\ tx[i].row >= 0
          /\ tx[i].col = RowReduction.LOCKED_STRONG
          /\ tx[j].row = tx[i].row
          /\ tx[j].col \in {RowReduction.LHS, RowReduction.RHS} \cup Nat
       \/ /\ tx[i].col >= 0
          /\ tx[i].row = ColReduction.LOCKED_STRONG
          /\ tx[j].col = tx[i].col
          /\ tx[j].row \in {ColReduction.OBJECTIVE} \cup Nat

\* no row and no column a record of tx names carries a flag in the view v
NoFlagBefore(v, tx) ==
    \A k \in DOMAIN tx :
       /\ tx[k].row >= 0 => v.row_state[tx[k].row] = {}
       /\ tx[k].col >= 0 => v.col_state[tx[k].col] = {}

\* tx holds a record whose application can end the transaction: a bound
\* change or a fixing (Infeasible), a substitution or a merge of parallel
\* columns (Rejected, Infeasible)
MayRefuse(tx) ==
    \E k \in DOMAIN tx :
       /\ tx[k].col >= 0
       /\ tx[k].row \in {ColReduction.FIXED, ColReduction.FIXED_INFINITY,
                         ColReduction.LOWER_BOUND, ColReduction.UPPER_BOUND,
                         ColReduction.IMPL_INT, ColReduction.SUBSTITUTE,
                         ColReduction.REPLACE, ColReduction.PARALLEL}

\* C38: the verdict of the conflict check of applyTransaction follows from
\* the flags as they were when it was called and from nothing else: it is
\* that of the first record, in sequence order, that those flags make a
\* Conflict (the transaction is rejected) or a Postpone (it is postponed),
\* and then nothing is changed; without such a record the transaction is
\* not postponed, and it is rejected only by the application of a
\* substitution or of a merge of parallel columns; the records of one
\* transaction do not conflict with each other, so a transaction that
\* locks a row or column strongly and modifies it, in either order, is
\* applied when the rows and columns it names carried no flag
C38_VerdictFromFlagsBefore ==
    [][last'.op = "applyTransaction" =>
          LET tx == Catalog(inst)[last'.arg]
              v == ConflictView(update)
          IN /\ last'.before = v
             /\ FirstVerdict(v, tx) = "kConflict" =>
                   last'.result = "kRejected" /\ core' = core
             /\ FirstVerdict(v, tx) = "kPostpone" =>
                   last'.result = "kPostponed" /\ core' = core
             /\ FirstVerdict(v, tx) = "kNoConflict" =>
                   /\ last'.result # "kPostponed"
                   /\ last'.result = "kRejected" => MayRefuse(tx)
             /\ (LocksAndModifies(tx) /\ NoFlagBefore(v, tx) /\ ~MayRefuse(tx)) =>
                   last'.result = "kApplied"]_vars

\* a transaction that locks a row strongly and then changes its right-hand
\* side has been applied, and so has one that changes a coefficient of a
\* row and then locks the row strongly (the state shows both)
C38_LockAndModifyAppliedSeen ==
    /\ last.op = "applyTransaction"
    /\ last.result = "kApplied"
    /\ LocksAndModifies(Catalog(inst)[last.arg])
    /\ Test(update.row_state[0], {"BoundsModified"})
    /\ "Locked" \in update.row_state[0]
    /\ update.row_state[1] = {"Modified", "Locked"}

\* a transaction whose first record asks for a postponement and whose
\* second record conflicts has been postponed
C38_PostponeBeforeConflictSeen ==
    /\ last.op = "applyTransaction"
    /\ last.result = "kPostponed"
    /\ "Locked" \in last.before.row_state[0]
    /\ Len(Catalog(inst)[last.arg]) = 2

\* the records of tx are weak locks and BOUNDS_LOCKED records only
OnlyChecks(tx) ==
    \A k \in DOMAIN tx :
       \/ tx[k].row >= 0 /\ tx[k].col = RowReduction.LOCKED
       \/ tx[k].col >= 0
            /\ tx[k].row \in {ColReduction.LOCKED, ColReduction.BOUNDS_LOCKED}

\* C39: a transaction that holds only weak locks (Col.LOCKED, Row.LOCKED)
\* and Col.BOUNDS_LOCKED records and is applied leaves the problem, the
\* update state, the statistics and the trail as they were; a row or
\* column gets the flag Locked only from a LOCKED_STRONG record of the
\* transaction that is applied
C39_WeakLocksArePureChecks ==
    [][last'.op = "applyTransaction" =>
          LET tx == Catalog(inst)[last'.arg]
          IN /\ (OnlyChecks(tx) /\ last'.result = "kApplied") => core' = core
             /\ \A r \in DOMAIN update.row_state :
                   ("Locked" \in update'.row_state[r] \ update.row_state[r]) =>
                      \E k \in DOMAIN tx :
                         tx[k] = Reduction(r, RowReduction.LOCKED_STRONG, 0)
             /\ \A c \in DOMAIN update.col_state :
                   ("Locked" \in update'.col_state[c] \ update.col_state[c]) =>
                      \E k \in DOMAIN tx :
                         tx[k] = Reduction(ColReduction.LOCKED_STRONG, c, 0)]_vars

\* the transaction of the three checks on column 1 and row 1 has been
\* applied
C39_ChecksAppliedSeen ==
    /\ last.op = "applyTransaction"
    /\ last.result = "kApplied"
    /\ OnlyChecks(Catalog(inst)[last.arg])
    /\ Len(Catalog(inst)[last.arg]) = 3

\* ------------------------------------------------------------------------
\* Claims about the fixed columns on the trail
\* ------------------------------------------------------------------------

NextTrail ==
    \/ TrivialPresolve
    \/ FixCol
    \/ FixColInfinity
    \/ ChangeLB
    \/ ChangeUB
    \/ Flush

SpecTrail == InitDomain /\ [][NextTrail]_vars

\* the positions of the trail at which column c is reported as fixed
FixedNotes(trail, c) ==
    {i \in DOMAIN trail :
        trail[i].type \in {"kFixedCol", "kFixedInfCol"} /\ trail[i].col = c}

\* C40 as stated: a column is reported to the trail as fixed, by
\* notifyFixedCol or notifyFixedInfCol, at most once, and only a column
\* flagged Fixed and not Substituted is; when a flush or a trivialPresolve
\* has completed, every column flagged Fixed has been reported, once
C40_FixedColumnsReportedOnce ==
    /\ [](\A c \in DOMAIN problem.cflags :
             /\ Cardinality(FixedNotes(postsolve, c)) <= 1
             /\ FixedNotes(postsolve, c) # {} =>
                   /\ "Fixed" \in problem.cflags[c]
                   /\ "Substituted" \notin problem.cflags[c])
    /\ [][(last'.op \in {"flush", "trivialPresolve"} /\ ~Stops(last'.result)) =>
             \A c \in DOMAIN problem'.cflags :
                "Fixed" \in problem'.cflags[c] =>
                   Cardinality(FixedNotes(postsolve', c)) = 1]_vars

\* a flush has completed; one column is Fixed at a finite value and another
\* is Fixed at infinity, and the trail reports each of them once
C40_BothKindsReportedSeen ==
    /\ last.op = "flush"
    /\ ~Stops(last.result)
    /\ \E c, d \in DOMAIN problem.cflags :
          /\ "Fixed" \in problem.cflags[c]
          /\ "Fixed" \in problem.cflags[d]
          /\ FixedNotes(postsolve, c) # {}
          /\ FixedNotes(postsolve, d) # {}
          /\ \A i \in FixedNotes(postsolve, c) : postsolve[i].type = "kFixedCol"
          /\ \A i \in FixedNotes(postsolve, d) : postsolve[i].type = "kFixedInfCol"

\* a flush has reported one column as fixed twice
C40_ReportedTwiceSeen ==
    /\ last.op = "flush"
    /\ \E c \in DOMAIN problem.cflags : Cardinality(FixedNotes(postsolve, c)) = 2
=============================================================================
